---- MODULE Spec2Model ----
(***************************************************************************)
(* Model of the account_set constraint wrappers (lang/src/account_set) and *)
(* of the Constraints impl generated by                                    *)
(* lang/syn/src/codegen/accounts/constraints_trait.rs.                     *)
(*                                                                         *)
(* A handler invocation is modelled in two phases:                         *)
(*   phase 1  try_accounts, one field of the accounts struct per step;     *)
(*   phase 2  Constraints::validate over the fully constructed struct.     *)
(***************************************************************************)
EXTENDS Integers, Sequences, FiniteSets, TLC

\* ------------------------------------------------------------------ bounds
\* Number of distinct public keys of the model: Pubkey == 0 .. NumPubkeys-1.
NumPubkeys == 4
\* Number of fields of a multi-field accounts struct.
NumFields == 3
\* Deepest wrapper nesting of a field type, e.g. Mut<Seeded<Account, S>> is 2.
MaxDepth == 2

\* ------------------------------------------------------- program constants
\* bump is a u8; the bump search starts at u8::MAX.
U8Max == 255

Pubkey == 0 .. (NumPubkeys - 1)

\* ---------------------------------------------------------------- errors
NoName == <<>>
NoPubkeys == <<>>

Error(code) == [code |-> code, name |-> NoName, pubkeys |-> NoPubkeys]

\* Error::with_account_name: sets the account name of the error.
WithAccountName(err, name) == [err EXCEPT !.name = <<name>>]

\* Error::with_pubkeys: attaches the compared keys (actual, expected).
WithPubkeys(err, actual, expected) == [err EXCEPT !.pubkeys = <<actual, expected>>]

NoError == Error("")

\* -------------------------------------------------------------- accounts
\* AccountInfo: key, is_signer, is_writable, executable, owner, lamports and
\* the data; of the data the model keeps whether the discriminator is the one
\* of the declared account type and the `authority` field of the payload.
NoAccount ==
    [key |-> -1, is_signer |-> FALSE, is_writable |-> FALSE, executable |-> FALSE,
     owner |-> -1, lamports |-> 0, disc |-> FALSE, authority |-> -1]

\* A resolved field value: the AccountInfo it wraps and, outermost first, the
\* state of each wrapper layer (bump and seeds are used by Seeded only).
NoValue == [present |-> FALSE, info |-> NoAccount, layers |-> <<>>]

Layer(w) == [w |-> w, bump |-> 0, seeds |-> <<>>]

\* Result<T>: Ok(val) or Err(err).  `rest` is the slice `accounts` points to
\* when the call returns: try_accounts advances it through `&mut`, so what the
\* inner type has taken stays taken when a later check fails.
Ok(val, rest) == [ok |-> TRUE, val |-> val, err |-> NoError, rest |-> rest]
Err(err) == [ok |-> FALSE, val |-> NoValue, err |-> err, rest |-> <<>>]
ErrAt(err, rest) == [ok |-> FALSE, val |-> NoValue, err |-> err, rest |-> rest]

\* The value a wrapper holds in its `inner` field.
Inner(v) == [v EXCEPT !.layers = Tail(v.layers)]

RECURSIVE account_info(_)

\* Faulty variant of is_signer: a wrapper answers for itself, not for its inner
\* value.
is_signer_undelegated(v) == IF v.layers = <<>> THEN v.info.is_signer ELSE FALSE

\* Faulty variant of check_owner: the keys are attached as (expected, actual).
check_owner_swapped(v, expected_owner) ==
    IF account_info(v).owner # expected_owner
    THEN Err(WithPubkeys(Error("AccountOwnedByWrongProgram"),
                         expected_owner, account_info(v).owner))
    ELSE Ok(NoValue, <<>>)

\* Faulty variant of account_info: Seeded does not delegate to its inner value.
account_info_seeded_undelegated(v) ==
    IF v.layers = <<>> THEN v.info
    ELSE IF Head(v.layers).w = "Seeded" THEN NoAccount
    ELSE account_info(Inner(v))

\* SingleAccountSet::account_info: a wrapper returns self.inner.account_info(),
\* a base account its own AccountInfo.  Every accessor goes through it.
account_info(v) == IF v.layers = <<>> THEN v.info ELSE account_info(Inner(v))
pubkey(v) == account_info(v).key
is_signer(v) == account_info(v).is_signer
is_writable(v) == account_info(v).is_writable
owner(v) == account_info(v).owner
lamports(v) == account_info(v).lamports

\* SingleAccountSet::check_signer, check_writable, check_owner, check_key.
check_signer(v) ==
    IF ~is_signer(v) THEN Err(Error("AccountNotSigner")) ELSE Ok(NoValue, <<>>)

check_writable(v) ==
    IF ~is_writable(v) THEN Err(Error("AccountNotMutable")) ELSE Ok(NoValue, <<>>)

check_owner(v, expected_owner) ==
    IF owner(v) # expected_owner
    THEN Err(WithPubkeys(Error("AccountOwnedByWrongProgram"),
                         owner(v), expected_owner))
    ELSE Ok(NoValue, <<>>)

check_key(v, expected_key) ==
    IF pubkey(v) # expected_key
    THEN Err(WithPubkeys(Error("ConstraintAddress"), pubkey(v), expected_key))
    ELSE Ok(NoValue, <<>>)

\* A wrapper around an inner value adds its layer in front.
Wrap(layer, inner) == [inner EXCEPT !.layers = <<layer>> \o inner.layers]

\* ---------------------------------------------------- address derivation
\* The marker appended to the hashed bytes (domain separator).
PdaMarker == <<80, 68, 65>>

RECURSIVE Flatten(_)
Flatten(slices) ==
    IF slices = <<>> THEN <<>> ELSE Head(slices) \o Flatten(Tail(slices))

\* One-way hash of a byte string onto the key space.
RECURSIVE HashBytes(_, _)
HashBytes(bytes, h) ==
    IF bytes = <<>> THEN h
    ELSE HashBytes(Tail(bytes), (h * 3 + Head(bytes) + 1) % NumPubkeys)

\* Whether a candidate address is a valid curve point.
IsOnCurve(address) == address % 2 = 0

\* Pubkey::create_program_address: the candidate of (seeds, program id); it is
\* rejected when it lies on the curve.
CreateProgramAddress(seed_slices, program_id) ==
    LET address == HashBytes(Flatten(seed_slices) \o <<program_id>> \o PdaMarker, 0)
    IN  [valid |-> ~IsOnCurve(address), address |-> address]

\* The bump search: from `bump` downwards, the first bump whose candidate is
\* off the curve.
RECURSIVE FindBumpFrom(_, _, _)
FindBumpFrom(seed_slices, program_id, bump) ==
    IF bump < 0 THEN [found |-> FALSE, address |-> -1, bump |-> -1]
    ELSE LET c == CreateProgramAddress(seed_slices \o << <<bump>> >>, program_id)
         IN  IF c.valid
             THEN [found |-> TRUE, address |-> c.address, bump |-> bump]
             ELSE FindBumpFrom(seed_slices, program_id, bump - 1)

\* Pubkey::find_program_address(seeds, program_id) -> (address, bump).
FindProgramAddress(seed_slices, program_id) ==
    FindBumpFrom(seed_slices, program_id, U8Max)

\* ------------------------------------------------------ marker types
\* impl Seeds for S: the seeds the provider S returns.
SeedsProviders == {"ConfigSeeds", "VaultSeeds"}
SeedsOf(S) ==
    IF S = "ConfigSeeds" THEN << <<99, 102, 103>> >>
    ELSE << <<118>>, <<1, 0>> >>

\* impl Id for P: the program id the marker P stands for.
ProgramMarkers == {"ThisProgram"}
IdOf(P) == IF P = "ThisProgram" THEN 1 ELSE 2

\* impl HasOneTarget<T> for Target: FIELD names a field of the accounts
\* struct; target(account) reads the `authority` field of the payload.  The
\* model names a Target by its FIELD.
FIELD(Target) == Target
target(Target, inner) == account_info(inner).authority

\* ------------------------------------------------------------ field types
\* A field type is the chain of its wrappers, outermost first, over the base
\* type Account<'info, T>: Mut<Seeded<Account<T>, S>> is
\* << [w |-> "Mut", arg |-> ""], [w |-> "Seeded", arg |-> S] >>.
TyMut == [w |-> "Mut", arg |-> ""]
TyExecutable == [w |-> "Executable", arg |-> ""]
TyOwned(P) == [w |-> "Owned", arg |-> P]
TySeeded(S) == [w |-> "Seeded", arg |-> S]
TyHasOne(Target) == [w |-> "HasOne", arg |-> Target]

RECURSIVE TryAccounts(_, _, _)

\* ----------------------------------------------------------- base type
\* Account<'info, T>::try_accounts: takes the next account, then decodes it;
\* fails when the accounts are exhausted or the discriminator is not the one
\* of T.
AccountTryAccounts(program_id, accounts) ==
    IF accounts = <<>> THEN ErrAt(Error("MissingAccount"), accounts)
    ELSE IF ~Head(accounts).disc
    THEN ErrAt(Error("AccountDiscriminatorMismatch"), Tail(accounts))
    ELSE Ok([present |-> TRUE, info |-> Head(accounts), layers |-> <<>>],
            Tail(accounts))

\* ------------------------------------------------------------------ Mut
\* Mut::try_from_validated
MutTryFromValidated(inner) ==
    IF ~is_writable(inner) THEN Err(Error("ConstraintMut"))
    ELSE Ok(Wrap(Layer("Mut"), inner), <<>>)

\* Faulty variant of MutTryAccounts: the writable flag of the next account is checked
\* before the inner type is resolved.
MutTryAccountsCheckFirst(T, program_id, accounts) ==
    IF accounts # <<>> /\ ~Head(accounts).is_writable
    THEN ErrAt(Error("ConstraintMut"), accounts)
    ELSE LET inner == TryAccounts(T, program_id, accounts)
         IN  IF ~inner.ok THEN inner
             ELSE Ok(Wrap(Layer("Mut"), inner.val), inner.rest)

\* impl Accounts for Mut<T>: try_accounts
MutTryAccounts(T, program_id, accounts) ==
    LET inner == TryAccounts(T, program_id, accounts)
    IN  IF ~inner.ok THEN inner
        ELSE IF ~is_writable(inner.val)
        THEN ErrAt(Error("ConstraintMut"), inner.rest)
        ELSE Ok(Wrap(Layer("Mut"), inner.val), inner.rest)

\* ----------------------------------------------------------- Executable
\* Executable::try_from_validated
ExecutableTryFromValidated(inner) ==
    IF ~account_info(inner).executable THEN Err(Error("ConstraintExecutable"))
    ELSE Ok(Wrap(Layer("Executable"), inner), <<>>)

\* Faulty variant of ExecutableTryAccounts: the failure is reported with the
\* error of the Program type.
ExecutableTryAccountsAsProgram(T, program_id, accounts) ==
    LET inner == TryAccounts(T, program_id, accounts)
    IN  IF ~inner.ok THEN inner
        ELSE IF ~account_info(inner.val).executable
        THEN ErrAt(Error("InvalidProgramExecutable"), inner.rest)
        ELSE Ok(Wrap(Layer("Executable"), inner.val), inner.rest)

\* impl Accounts for Executable<T>: try_accounts
ExecutableTryAccounts(T, program_id, accounts) ==
    LET inner == TryAccounts(T, program_id, accounts)
    IN  IF ~inner.ok THEN inner
        ELSE IF ~account_info(inner.val).executable
        THEN ErrAt(Error("ConstraintExecutable"), inner.rest)
        ELSE Ok(Wrap(Layer("Executable"), inner.val), inner.rest)

\* ---------------------------------------------------------------- Owned
\* Owned::try_from_validated
OwnedTryFromValidated(inner, P) ==
    LET expected_owner == IdOf(P)
    IN  IF owner(inner) # expected_owner THEN Err(Error("ConstraintOwner"))
        ELSE Ok(Wrap(Layer("Owned"), inner), <<>>)

\* Faulty variant of OwnedTryAccounts: the owner is compared with the program
\* id of the invocation, not with P::id().
OwnedTryAccountsProgramId(T, P, program_id, accounts) ==
    LET inner == TryAccounts(T, program_id, accounts)
        expected_owner == program_id
    IN  IF ~inner.ok THEN inner
        ELSE IF owner(inner.val) # expected_owner
        THEN ErrAt(Error("ConstraintOwner"), inner.rest)
        ELSE Ok(Wrap(Layer("Owned"), inner.val), inner.rest)

\* Faulty variant of OwnedTryAccounts: the error carries the two owners compared,
\* as check_owner's does.
OwnedTryAccountsWithPubkeys(T, P, program_id, accounts) ==
    LET inner == TryAccounts(T, program_id, accounts)
        expected_owner == IdOf(P)
    IN  IF ~inner.ok THEN inner
        ELSE IF owner(inner.val) # expected_owner
        THEN ErrAt(WithPubkeys(Error("ConstraintOwner"),
                               owner(inner.val), expected_owner), inner.rest)
        ELSE Ok(Wrap(Layer("Owned"), inner.val), inner.rest)

\* impl Accounts for Owned<T, P>: try_accounts
OwnedTryAccounts(T, P, program_id, accounts) ==
    LET inner == TryAccounts(T, program_id, accounts)
        expected_owner == IdOf(P)
    IN  IF ~inner.ok THEN inner
        ELSE IF owner(inner.val) # expected_owner
        THEN ErrAt(Error("ConstraintOwner"), inner.rest)
        ELSE Ok(Wrap(Layer("Owned"), inner.val), inner.rest)

\* --------------------------------------------------------------- Seeded
\* Faulty variant of SeededTryFromValidatedWithSeeds: the keys of the error are
\* attached as (expected, actual).
SeededTryFromValidatedWithSeedsSwapped(inner, program_id, seeds_provider) ==
    LET seed_slices == SeedsOf(seeds_provider)
        pda == FindProgramAddress(seed_slices, program_id)
        expected_key == pda.address
        bump == pda.bump
    IN  IF ~pda.found THEN Err(Error("Panic"))
        ELSE IF account_info(inner).key # expected_key
        THEN Err(WithPubkeys(Error("ConstraintSeeds"),
                             expected_key, account_info(inner).key))
        ELSE Ok(Wrap([w |-> "Seeded", bump |-> bump, seeds |-> seed_slices], inner),
                <<>>)

\* Faulty variant of SeededTryFromValidatedWithSeeds: the address is derived
\* from the lowest bump whose candidate is off the curve, not the highest.
SeededTryFromValidatedWithSeedsLowestBump(inner, program_id, seeds_provider) ==
    LET seed_slices == SeedsOf(seeds_provider)
        bump == CHOOSE b \in 0 .. U8Max :
                    CreateProgramAddress(seed_slices \o << <<b>> >>, program_id).valid
        expected_key ==
            CreateProgramAddress(seed_slices \o << <<bump>> >>, program_id).address
    IN  IF account_info(inner).key # expected_key
        THEN Err(WithPubkeys(Error("ConstraintSeeds"),
                             account_info(inner).key, expected_key))
        ELSE Ok(Wrap([w |-> "Seeded", bump |-> bump, seeds |-> seed_slices], inner),
                <<>>)

\* Seeded::try_from_validated_with_seeds.  find_program_address panics when
\* no bump yields an address off the curve.
SeededTryFromValidatedWithSeeds(inner, program_id, seeds_provider) ==
    LET seed_slices == SeedsOf(seeds_provider)
        pda == FindProgramAddress(seed_slices, program_id)
        expected_key == pda.address
        bump == pda.bump
    IN  IF ~pda.found THEN Err(Error("Panic"))
        ELSE IF account_info(inner).key # expected_key
        THEN Err(WithPubkeys(Error("ConstraintSeeds"),
                             account_info(inner).key, expected_key))
        ELSE Ok(Wrap([w |-> "Seeded", bump |-> bump, seeds |-> seed_slices], inner),
                <<>>)

\* Seeded::try_from_validated: the seeds provider is S::default().
SeededTryFromValidated(inner, S, program_id) ==
    SeededTryFromValidatedWithSeeds(inner, program_id, S)

\* impl Accounts for Seeded<T, S>: try_accounts
SeededTryAccounts(T, S, program_id, accounts) ==
    LET inner == TryAccounts(T, program_id, accounts)
    IN  IF ~inner.ok THEN inner
        ELSE LET r == SeededTryFromValidatedWithSeeds(inner.val, program_id, S)
             IN  IF r.ok THEN Ok(r.val, inner.rest) ELSE ErrAt(r.err, inner.rest)

\* Seeded::bump and Seeded::seeds of a value whose outermost layer is Seeded.
SeededBump(v) == Head(v.layers).bump
SeededSeeds(v) == Head(v.layers).seeds

\* Seeded::signer_seeds: a SeedsWithBump owning copies of the seeds and the
\* bump.
signer_seeds(v) == [seeds |-> SeededSeeds(v), bump |-> SeededBump(v)]

\* Faulty variant of to_signer_seeds: the bump is put in front of the seeds.
to_signer_seeds_bump_first(swb) == << <<swb.bump>> >> \o swb.seeds

\* SeedsWithBump::to_signer_seeds: the seeds as slices, then the bump as a
\* one-byte slice.
to_signer_seeds(swb) == swb.seeds \o << <<swb.bump>> >>

\* --------------------------------------------------------------- HasOne
\* HasOne::try_from_validated_with_target
HasOneTryFromValidatedWithTarget(inner, Target, expected_target) ==
    LET actual_target == target(Target, inner)
    IN  IF actual_target # expected_target THEN Err(Error("ConstraintHasOne"))
        ELSE Ok(Wrap(Layer("HasOne"), inner), <<>>)

\* Faulty variant of ValidateHasOne: compares the account's own key, not the field.
ValidateHasOneOwnKey(self, Target, expected_target) ==
    LET actual_target == pubkey(self)
    IN  IF actual_target # expected_target THEN Err(Error("ConstraintHasOne"))
        ELSE Ok(NoValue, <<>>)

\* HasOne::validate_has_one: Ok(()) or ConstraintHasOne.
ValidateHasOne(self, Target, expected_target) ==
    LET actual_target == target(Target, self)
    IN  IF actual_target # expected_target THEN Err(Error("ConstraintHasOne"))
        ELSE Ok(NoValue, <<>>)

\* Faulty variant of HasOneTryAccounts: the relationship is compared while the field
\* is resolved, against the one key at hand.
HasOneTryAccountsEager(T, Target, program_id, accounts) ==
    LET inner == TryAccounts(T, program_id, accounts)
    IN  IF ~inner.ok THEN inner
        ELSE IF target(Target, inner.val) # pubkey(inner.val)
        THEN ErrAt(Error("ConstraintHasOne"), inner.rest)
        ELSE Ok(Wrap(Layer("HasOne"), inner.val), inner.rest)

\* Faulty variant of HasOneTryAccounts: the wrapper takes one more account,
\* for its target, after the inner type has taken its own.
HasOneTryAccountsTakingTarget(T, Target, program_id, accounts) ==
    LET inner == TryAccounts(T, program_id, accounts)
    IN  IF ~inner.ok THEN inner
        ELSE IF inner.rest = <<>> THEN ErrAt(Error("MissingAccount"), inner.rest)
        ELSE Ok(Wrap(Layer("HasOne"), inner.val), Tail(inner.rest))

\* impl Accounts for HasOne<T, Target>: try_accounts (no comparison here).
HasOneTryAccounts(T, Target, program_id, accounts) ==
    LET inner == TryAccounts(T, program_id, accounts)
    IN  IF ~inner.ok THEN inner
        ELSE Ok(Wrap(Layer("HasOne"), inner.val), inner.rest)

\* ------------------------------------------------------- type dispatch
\* <Ty as Accounts>::try_accounts for a field type ty.
TryAccounts(ty, program_id, accounts) ==
    IF ty = <<>> THEN AccountTryAccounts(program_id, accounts)
    ELSE LET W == Head(ty)
             T == Tail(ty)
         IN  CASE W.w = "Mut" -> MutTryAccounts(T, program_id, accounts)
               [] W.w = "Executable" -> ExecutableTryAccounts(T, program_id, accounts)
               [] W.w = "Owned" -> OwnedTryAccounts(T, W.arg, program_id, accounts)
               [] W.w = "Seeded" -> SeededTryAccounts(T, W.arg, program_id, accounts)
               [] W.w = "HasOne" -> HasOneTryAccounts(T, W.arg, program_id, accounts)

\* ------------------------------------------------------ accounts struct
\* A field of the accounts struct (AccountField::Field): its name, its type,
\* Option<..>, and the constraints of its #[account(...)] attribute.
Field(ident, ty, is_optional, mutable, dup, init) ==
    [ident |-> ident, ty |-> ty, is_optional |-> is_optional,
     constraints |-> [mutable |-> mutable, dup |-> dup, init |-> init,
                      zeroed |-> FALSE, realloc |-> FALSE]]

\* The field with #[account(zero)] added to its attribute.
Zeroed(f) == [f EXCEPT !.constraints.zeroed = TRUE]

\* The field with #[account(realloc = .., ..)] added to its attribute.
Realloc(f) == [f EXCEPT !.constraints.realloc = TRUE]

\* Option<T>::try_accounts: None, taking nothing, when the accounts are
\* exhausted; None, taking one account, when the supplied key is the program
\* id; else Some(T::try_accounts).
OptionTryAccounts(T, program_id, accounts) ==
    IF accounts = <<>> THEN Ok(NoValue, accounts)
    ELSE IF Head(accounts).key = program_id THEN Ok(NoValue, Tail(accounts))
    ELSE TryAccounts(T, program_id, accounts)

\* The field's step of the struct's try_accounts.
FieldTryAccounts(f, program_id, accounts) ==
    IF f.is_optional THEN OptionTryAccounts(f.ty, program_id, accounts)
    ELSE TryAccounts(f.ty, program_id, accounts)

\* ------------------------------------------------- Constraints::validate
OkUnit == Ok(NoValue, <<>>)

\* Faulty variant of is_init: no field counts as an init field.
is_init_never(af) == FALSE

\* is_init: init constraints are handled during deserialization only.
is_init(af) == af.constraints.init

RECURSIVE extract_has_one_ty(_)

\* Faulty variant of extract_has_one_ty: Seeded is not looked through.
extract_has_one_ty_stops_at_seeded(ty) ==
    IF ty = <<>> \/ Head(ty).w = "Seeded"
    THEN [some |-> FALSE, has_one_ty |-> TyHasOne("")]
    ELSE IF Head(ty).w = "HasOne" THEN [some |-> TRUE, has_one_ty |-> Head(ty)]
    ELSE extract_has_one_ty(Tail(ty))

\* extract_has_one_ty: the HasOne of a type, looking through Mut, Seeded,
\* Owned and Executable; the first HasOne found is returned and is not looked
\* into.
extract_has_one_ty(ty) ==
    IF ty = <<>> THEN [some |-> FALSE, has_one_ty |-> TyHasOne("")]
    ELSE IF Head(ty).w = "HasOne" THEN [some |-> TRUE, has_one_ty |-> Head(ty)]
    ELSE extract_has_one_ty(Tail(ty))

\* Faulty variant of const_check: no check is emitted.
const_check_absent(has_one_ty, accs) == TRUE

\* const_check: compilation fails unless HasOneTarget::FIELD is the name of a
\* field of the accounts struct.
const_check(has_one_ty, accs) ==
    \E i \in 1 .. Len(accs) : accs[i].ident = FIELD(has_one_ty.arg)

\* Faulty variant of target_key: an optional target that is None yields the
\* default key instead of an error.
target_key_none_as_default(target_field, accs, self) ==
    IF \E i \in 1 .. Len(accs) : accs[i].ident = target_field
    THEN LET i == CHOOSE i \in 1 .. Len(accs) : accs[i].ident = target_field
         IN  [ok |-> TRUE, key |-> pubkey(self[i]), err |-> NoError]
    ELSE [ok |-> FALSE, key |-> -1, err |-> Error("Unreachable")]

\* target_key_arms: `match FIELD { name => key of that field, .. }`; an
\* optional target that is None returns ConstraintAccountIsNone named after
\* the target.
target_key(target_field, accs, self) ==
    IF \E i \in 1 .. Len(accs) : accs[i].ident = target_field
    THEN LET i == CHOOSE i \in 1 .. Len(accs) : accs[i].ident = target_field
         IN  IF accs[i].is_optional /\ ~self[i].present
             THEN [ok |-> FALSE, key |-> -1,
                   err |-> WithAccountName(Error("ConstraintAccountIsNone"),
                                           accs[i].ident)]
             ELSE [ok |-> TRUE, key |-> pubkey(self[i]), err |-> NoError]
    ELSE [ok |-> FALSE, key |-> -1, err |-> Error("Unreachable")]

\* Faulty variant of has_one_wrapper_validation: the target key is looked up
\* before the `if let Some(field)` of an optional field.
has_one_wrapper_validation_target_first(i, has_one_ty, accs, self) ==
    LET t == target_key(FIELD(has_one_ty.arg), accs, self)
    IN  IF ~t.ok THEN Err(t.err)
        ELSE IF accs[i].is_optional /\ ~self[i].present THEN OkUnit
        ELSE LET r == ValidateHasOne(self[i], has_one_ty.arg, t.key)
             IN  IF ~r.ok THEN Err(WithAccountName(r.err, accs[i].ident))
                 ELSE OkUnit

\* Faulty variant of has_one_wrapper_validation: the target is looked up among the
\* fields declared up to the dependent field only.
has_one_wrapper_validation_prefix(i, has_one_ty, accs, self) ==
    IF accs[i].is_optional /\ ~self[i].present THEN OkUnit
    ELSE LET t == target_key(FIELD(has_one_ty.arg), SubSeq(accs, 1, i), self)
         IN  IF ~t.ok THEN Err(t.err)
             ELSE LET r == ValidateHasOne(self[i], has_one_ty.arg, t.key)
                  IN  IF ~r.ok THEN Err(WithAccountName(r.err, accs[i].ident))
                      ELSE OkUnit

\* generate_has_one_wrapper_validation: the check emitted for field i.
has_one_wrapper_validation(i, has_one_ty, accs, self) ==
    IF accs[i].is_optional /\ ~self[i].present THEN OkUnit
    ELSE LET t == target_key(FIELD(has_one_ty.arg), accs, self)
         IN  IF ~t.ok THEN Err(t.err)
             ELSE LET r == ValidateHasOne(self[i], has_one_ty.arg, t.key)
                  IN  IF ~r.ok THEN Err(WithAccountName(r.err, accs[i].ident))
                      ELSE OkUnit

\* generate_wrapper_validation: Some(check) for a field with a HasOne.
wrapper_validation(i, accs, self) ==
    LET h == extract_has_one_ty(accs[i].ty)
    IN  IF h.some THEN has_one_wrapper_validation(i, h.has_one_ty, accs, self)
        ELSE OkUnit

RECURSIVE wrapper_validations(_, _, _)

\* Faulty variant of wrapper_validations: the later fields are checked first.
wrapper_validations_reverse(i, accs, self) ==
    IF i > Len(accs) THEN OkUnit
    ELSE LET rest == wrapper_validations(i + 1, accs, self)
         IN  IF ~rest.ok THEN rest
             ELSE IF is_init(accs[i]) THEN OkUnit
             ELSE wrapper_validation(i, accs, self)

\* #(#wrapper_validations)*: the checks of the non-init fields from field i
\* on, in declared order, stopping at the first error.
wrapper_validations(i, accs, self) ==
    IF i > Len(accs) THEN OkUnit
    ELSE IF is_init(accs[i]) THEN wrapper_validations(i + 1, accs, self)
    ELSE LET r == wrapper_validation(i, accs, self)
         IN  IF ~r.ok THEN r ELSE wrapper_validations(i + 1, accs, self)

\* Faulty variant of duplicate_pair: a pair counts when either of its fields
\* is declared writable.
duplicate_pair_either_mutable(i, j, accs, self) ==
    /\ i < j
    /\ accs[i].constraints.mutable \/ accs[j].constraints.mutable
    /\ ~accs[i].constraints.dup /\ ~accs[j].constraints.dup
    /\ ~is_init(accs[i]) /\ ~is_init(accs[j])
    /\ self[i].present /\ self[j].present
    /\ pubkey(self[i]) = pubkey(self[j])

\* Faulty variant of duplicate_pair: the pair is let through only when both fields
\* are marked dup.
duplicate_pair_both_dup(i, j, accs, self) ==
    /\ i < j
    /\ accs[i].constraints.mutable /\ accs[j].constraints.mutable
    /\ ~(accs[i].constraints.dup /\ accs[j].constraints.dup)
    /\ ~is_init(accs[i]) /\ ~is_init(accs[j])
    /\ self[i].present /\ self[j].present
    /\ pubkey(self[i]) = pubkey(self[j])

\* Whether the fields i and j are an aliasing mutable pair: both declared
\* writable, neither marked dup, both present, the same key.
duplicate_pair(i, j, accs, self) ==
    /\ i < j
    /\ accs[i].constraints.mutable /\ accs[j].constraints.mutable
    /\ ~accs[i].constraints.dup /\ ~accs[j].constraints.dup
    /\ ~is_init(accs[i]) /\ ~is_init(accs[j])
    /\ self[i].present /\ self[j].present
    /\ pubkey(self[i]) = pubkey(self[j])

\* generate_duplicate_mutable_checks: fails on the first aliasing pair.
duplicate_mutable_checks(accs, self) ==
    LET pairs == {p \in (1 .. Len(accs)) \X (1 .. Len(accs)) :
                     duplicate_pair(p[1], p[2], accs, self)}
    IN  IF pairs = {} THEN OkUnit
        ELSE LET p == CHOOSE p \in pairs :
                        \A q \in pairs :
                            \/ p[2] < q[2]
                            \/ (p[2] = q[2] /\ p[1] <= q[1])
             IN  Err([Error("DuplicateMutableAccount") EXCEPT
                         !.name = <<accs[p[1]].ident, accs[p[2]].ident>>])

\* constraints::generate_for_validate: the attribute checks of field i; a
\* field declared `mut` must be writable.
access_check(i, accs, self) ==
    IF accs[i].constraints.mutable /\ self[i].present /\ ~is_writable(self[i])
    THEN Err(WithAccountName(Error("ConstraintMut"), accs[i].ident))
    ELSE OkUnit

\* #(#access_checks)*: the attribute checks of the non-init fields in order.
RECURSIVE access_checks(_, _, _)
access_checks(i, accs, self) ==
    IF i > Len(accs) THEN OkUnit
    ELSE IF is_init(accs[i]) THEN access_checks(i + 1, accs, self)
    ELSE LET r == access_check(i, accs, self)
         IN  IF ~r.ok THEN r ELSE access_checks(i + 1, accs, self)

\* Faulty variant of validate_constraints: the access checks run before the
\* duplicate checks.
validate_constraints_access_first(accs, self) ==
    LET a == access_checks(1, accs, self)
    IN  IF ~a.ok THEN a
        ELSE LET d == duplicate_mutable_checks(accs, self)
             IN  IF ~d.ok THEN d
                 ELSE wrapper_validations(1, accs, self)

\* Faulty variant of validate_constraints: the wrapper validations run first.
validate_constraints_wrappers_first(accs, self) ==
    LET w == wrapper_validations(1, accs, self)
    IN  IF ~w.ok THEN w
        ELSE LET d == duplicate_mutable_checks(accs, self)
             IN  IF ~d.ok THEN d
                 ELSE access_checks(1, accs, self)

\* generate_validate_constraints: duplicate checks, then the access checks,
\* then the wrapper validations; the first error is returned.
validate_constraints(accs, self) ==
    LET d == duplicate_mutable_checks(accs, self)
    IN  IF ~d.ok THEN d
        ELSE LET a == access_checks(1, accs, self)
             IN  IF ~a.ok THEN a
                 ELSE wrapper_validations(1, accs, self)

\* Constraints::validate of the generated impl.
validate(accs, self) == validate_constraints(accs, self)

\* ------------------------------------------------------------------ state
VARIABLES
    accs,        \* the accounts struct: its fields in declared order
    program_id,  \* the program id of the invocation
    supplied,    \* the accounts as supplied by the caller
    accounts,    \* the slice try_accounts advances: the accounts not yet taken
    self,        \* the fields constructed so far
    pc,          \* "parse", "parse_error", "compile", "compile_error",
                 \* "try_accounts", "validate", "built", "metas",
                 \* "err_try_accounts", "done", "handler"
    result,      \* the Result of the phase that ended last
    avm,         \* the version manager: its home directory and its last call
    cli          \* the deploy command: the cluster, its arguments, its progress

vars == <<accs, program_id, supplied, accounts, self, pc, result, avm, cli>>

\* The command-line tools take no part in a handler invocation.
NoAvm == [op |-> "none"]
NoCli == [op |-> "none"]

\* Phase 1: try_accounts of the next field of the struct.
TryAccountsField ==
    /\ pc = "try_accounts"
    /\ Len(self) < Len(accs)
    /\ LET f == accs[Len(self) + 1]
           r == FieldTryAccounts(f, program_id, accounts)
       IN  IF r.ok
           THEN /\ self' = Append(self, r.val)
                /\ accounts' = r.rest
                /\ pc' = IF Len(self) + 1 = Len(accs) THEN "validate" ELSE pc
                /\ result' = [ok |-> TRUE, err |-> NoError]
           ELSE /\ pc' = "err_try_accounts"
                /\ result' = [ok |-> FALSE, err |-> r.err]
                /\ accounts' = r.rest
                /\ UNCHANGED self
    /\ UNCHANGED <<accs, program_id, supplied, avm, cli>>

\* Faulty variant of Validate: a failed validate drops the resolved fields.
ValidateDropping ==
    /\ pc = "validate"
    /\ LET r == validate(accs, self)
       IN  /\ result' = [ok |-> r.ok, err |-> r.err]
           /\ self' = IF r.ok THEN self ELSE <<>>
    /\ pc' = "done"
    /\ UNCHANGED <<accs, program_id, supplied, accounts, avm, cli>>

\* Phase 2: ctx.validate() on the constructed struct.
Validate ==
    /\ pc = "validate"
    /\ LET r == validate(accs, self)
       IN  result' = [ok |-> r.ok, err |-> r.err]
    /\ pc' = "done"
    /\ UNCHANGED <<accs, program_id, supplied, accounts, self, avm, cli>>

Next == TryAccountsField \/ Validate

\* The handler body: after a successful validate it calls one accessor check
\* on ctx.accounts.data; `call` records the check and its argument.
CheckNames == {"check_signer", "check_writable", "check_owner", "check_key"}

HandlerCheck ==
    /\ pc = "done"
    /\ result.ok
    /\ \E name \in CheckNames, expected \in Pubkey :
          LET data == self[1]
              r == CASE name = "check_signer" -> check_signer(data)
                     [] name = "check_writable" -> check_writable(data)
                     [] name = "check_owner" -> check_owner(data, expected)
                     [] name = "check_key" -> check_key(data, expected)
              arg == IF name \in {"check_owner", "check_key"} THEN expected ELSE 0
          IN  result' = [ok |-> r.ok, err |-> r.err,
                         call |-> [name |-> name, expected |-> arg]]
    /\ pc' = "handler"
    /\ UNCHANGED <<accs, program_id, supplied, accounts, self, avm, cli>>

NextHandler == TryAccountsField \/ Validate \/ HandlerCheck

\* -------------------------------------------------------- initial states
AccountInfo(key, writable, executable, own, disc, authority) ==
    [key |-> key, is_signer |-> FALSE, is_writable |-> writable,
     executable |-> executable, owner |-> own, lamports |-> 1,
     disc |-> disc, authority |-> authority]

Start ==
    /\ accounts = supplied
    /\ self = <<>>
    /\ pc = "try_accounts"
    /\ result = [ok |-> TRUE, err |-> NoError]
    /\ avm = NoAvm
    /\ cli = NoCli

\* Accounts structs of NumFields fields over Account<'info, T>: a field is
\* read-only, #[account(mut)], #[account(mut, dup)], or HasOne<Account<T>, Target>
\* with FIELD the name of another field.
Idents == <<"a", "b", "c", "d", "e", "f">>
SchemaKeys == {1, 2}
AttrKinds == {"readonly", "mut", "mut_dup"}

\* kind = <<attribute kind, 0>> for a plain field, <<"has_one", j>> for a
\* HasOne whose FIELD names field j.
SchemaField(i, kind) ==
    IF kind[1] = "has_one"
    THEN Field(Idents[i], <<TyHasOne(Idents[kind[2]])>>, FALSE, FALSE, FALSE, FALSE)
    ELSE Field(Idents[i], <<>>, FALSE, kind[1] # "readonly", kind[1] = "mut_dup",
               FALSE)

SchemaKinds(i) ==
    {<<k, 0>> : k \in AttrKinds}
        \cup {<<"has_one", j>> : j \in (1 .. NumFields) \ {i}}

Schemas ==
    {[i \in 1 .. NumFields |-> SchemaField(i, kinds[i])] :
        kinds \in {k \in [1 .. NumFields ->
                            UNION {SchemaKinds(i) : i \in 1 .. NumFields}] :
                      \A i \in 1 .. NumFields : k[i] \in SchemaKinds(i)}}

\* The accounts supplied to them: one per field; entries with the same key
\* are the same account.
Ledgers == [SchemaKeys -> [is_writable : BOOLEAN, authority : SchemaKeys]]

Init ==
    /\ accs \in Schemas
    /\ program_id = 0
    /\ \E ledger \in Ledgers, keys \in [1 .. NumFields -> SchemaKeys] :
          supplied = [i \in 1 .. NumFields |->
                         AccountInfo(keys[i], ledger[keys[i]].is_writable, FALSE,
                                     0, TRUE, ledger[keys[i]].authority)]
    /\ Start

Spec == Init /\ [][Next]_vars

\* Accounts structs { data: W1<W2<..Account<T>..>>, authority: Account<T> }
\* with up to MaxDepth wrappers on `data`.
WrapperTys ==
    {TyMut, TyExecutable, TyOwned("ThisProgram"), TyHasOne("authority"),
     TyHasOne("data")}
        \cup {TySeeded(S) : S \in SeedsProviders}

RECURSIVE TysOfDepth(_)
TysOfDepth(d) ==
    IF d = 0 THEN {<<>>}
    ELSE {<<W>> \o T : W \in WrapperTys, T \in TysOfDepth(d - 1)}

Tys == UNION {TysOfDepth(d) : d \in 0 .. MaxDepth}

ProgramIds == {1, 2}

DataAccounts ==
    {AccountInfo(k, w, x, o, d, a) :
        k \in Pubkey, w \in BOOLEAN, x \in BOOLEAN, o \in ProgramIds,
        d \in BOOLEAN, a \in SchemaKeys}

InitWrappers ==
    /\ \E ty \in Tys :
          accs = << Field("data", ty, FALSE, FALSE, FALSE, FALSE),
                    Field("authority", <<>>, FALSE, FALSE, FALSE, FALSE) >>
    /\ program_id \in ProgramIds
    /\ \E data \in DataAccounts, k \in SchemaKeys, n \in 0 .. 2 :
          LET authority == IF k = data.key THEN data
                           ELSE AccountInfo(k, FALSE, FALSE, 0, TRUE, k)
          IN  supplied = SubSeq(<<data, authority>>, 1, n)
    /\ Start

SpecWrappers == InitWrappers /\ [][Next]_vars

\* Handlers reading `data` through the accessors: structs
\* { data: W1<W2<..>>, authority } of the invoked program, both accounts
\* supplied, every flag of the data account free.
HandlerAccounts ==
    {[AccountInfo(k, w, x, o, TRUE, a) EXCEPT !.is_signer = sg, !.lamports = l] :
        k \in Pubkey, w \in BOOLEAN, x \in BOOLEAN, o \in ProgramIds,
        a \in SchemaKeys, sg \in BOOLEAN, l \in {0, 1}}

InitHandler ==
    /\ \E ty \in Tys :
          accs = << Field("data", ty, FALSE, FALSE, FALSE, FALSE),
                    Field("authority", <<>>, FALSE, FALSE, FALSE, FALSE) >>
    /\ program_id = IdOf("ThisProgram")
    /\ \E data \in HandlerAccounts, k \in SchemaKeys :
          LET authority == IF k = data.key THEN data
                           ELSE AccountInfo(k, FALSE, FALSE, 0, TRUE, k)
          IN  supplied = <<data, authority>>
    /\ Start

SpecHandler == InitHandler /\ [][NextHandler]_vars

\* Accounts structs { data, authority } whose fields may be Option<..>: `data`
\* is a base account with no attribute, #[account(mut)], #[account(init, ..)]
\* (init marks the field writable), #[account(zero)] or #[account(mut, zero)],
\* or carries a HasOne whose FIELD is "authority"; the parser rejects a
\* wrapper type together with init or zero.
OptionalKinds ==
    {<< <<>>, a >> : a \in {"none", "mut", "init", "zero", "mut_zero"}}
        \cup {<< <<TyHasOne("authority")>>, a >> : a \in {"none", "mut"}}
        \cup {<< <<TyMut, TyHasOne("authority")>>, "none" >>}

OptionalField(ident, kind, is_optional) ==
    LET f == Field(ident, kind[1], is_optional,
                   kind[2] \in {"mut", "init", "mut_zero"}, FALSE, kind[2] = "init")
    IN  IF kind[2] \in {"zero", "mut_zero"} THEN Zeroed(f) ELSE f

\* The accounts supplied: none, one or two; an account whose key is the
\* program id stands for None in the place of an optional field.
OptionalAccounts ==
    {AccountInfo(k, w, FALSE, 0, TRUE, a) :
        k \in {0} \cup SchemaKeys, w \in BOOLEAN, a \in SchemaKeys}

InitOptional ==
    /\ \E kind \in OptionalKinds, od \in BOOLEAN, oa \in BOOLEAN :
          accs = << OptionalField("data", kind, od),
                    OptionalField("authority", << <<>>, "none" >>, oa) >>
    /\ program_id = 0
    /\ supplied \in UNION {[1 .. n -> OptionalAccounts] : n \in 0 .. 2}
    /\ Start

SpecOptional == InitOptional /\ [][Next]_vars

\* ------------------------------------------------- compiling a struct
\* The const items the generated validate holds are evaluated when the
\* program is compiled: one const_check per field validate emits a
\* relationship check for.
compiles(accs_) ==
    \A i \in 1 .. Len(accs_) :
        LET h == extract_has_one_ty(accs_[i].ty)
        IN  (~is_init(accs_[i]) /\ h.some) => const_check(h.has_one_ty, accs_)

\* Compiling the program: a failed const_check is a compile error and there
\* is no program to invoke.
Compile ==
    /\ pc = "compile"
    /\ IF compiles(accs)
       THEN pc' = "try_accounts" /\ result' = result
       ELSE pc' = "compile_error" /\ result' = [ok |-> FALSE, err |-> Error("ConstPanic")]
    /\ UNCHANGED <<accs, program_id, supplied, accounts, self, avm, cli>>

NextCompile == Compile \/ TryAccountsField \/ Validate

\* Structs { data: W1<W2<..>>, authority } as written, before they are
\* compiled: a HasOneTarget may name "authority", or "owner", which is no field.
CompileWrapperTys == {TyMut, TyHasOne("authority"), TyHasOne("owner")}

RECURSIVE CompileTysOfDepth(_)
CompileTysOfDepth(d) ==
    IF d = 0 THEN {<<>>}
    ELSE {<<W>> \o T : W \in CompileWrapperTys, T \in CompileTysOfDepth(d - 1)}

CompileTys == UNION {CompileTysOfDepth(d) : d \in 0 .. MaxDepth}

InitCompile ==
    /\ \E ty \in CompileTys :
          accs = << Field("data", ty, FALSE, FALSE, FALSE, FALSE),
                    Field("authority", <<>>, FALSE, FALSE, FALSE, FALSE) >>
    /\ program_id = IdOf("ThisProgram")
    /\ \E k \in Pubkey, w \in BOOLEAN, a \in SchemaKeys, ka \in SchemaKeys :
          supplied = << AccountInfo(k, w, FALSE, 0, TRUE, a),
                        AccountInfo(ka, FALSE, FALSE, 0, TRUE, ka) >>
    /\ accounts = supplied
    /\ self = <<>>
    /\ pc = "compile"
    /\ result = [ok |-> TRUE, err |-> NoError]
    /\ avm = NoAvm
    /\ cli = NoCli

SpecCompile == InitCompile /\ [][NextCompile]_vars

\* --------------------------------------------------- parsing a struct
\* Faulty variant of is_wrapper_type: HasOne is missing from the match.
is_wrapper_type_without_has_one(ty) == ty # <<>> /\ Head(ty).w # "HasOne"

\* is_wrapper_type: the parsed type is Mut, Seeded, Owned, Executable or
\* HasOne at the outermost level.
is_wrapper_type(ty) == ty # <<>>

\* wrapper_type_name: the name put in the error message.
wrapper_type_name(ty) ==
    CASE Head(ty).w = "Mut" -> "Mut<T>"
      [] Head(ty).w = "Seeded" -> "Seeded<T, S>"
      [] Head(ty).w = "Owned" -> "Owned<T, P>"
      [] Head(ty).w = "Executable" -> "Executable<T>"
      [] Head(ty).w = "HasOne" -> "HasOne<T, Target>"

\* ParseError::new(span, "cannot combine {wrapper} wrapper type with {attr}")
ParseError(wrapper_name, attr) ==
    WithAccountName(Error("cannot combine wrapper type with " \o attr), wrapper_name)

\* validate_wrapper_constraint_compatibility
validate_wrapper_constraint_compatibility(ty, constraints) ==
    IF ~is_wrapper_type(ty) THEN OkUnit
    ELSE LET wrapper_name == wrapper_type_name(ty)
         IN  IF constraints.init
             THEN Err(ParseError(wrapper_name, "#[account(init, ...)]"))
             ELSE IF constraints.zeroed
             THEN Err(ParseError(wrapper_name, "#[account(zero)]"))
             ELSE IF constraints.realloc
             THEN Err(ParseError(wrapper_name, "#[account(realloc = ...)]"))
             ELSE OkUnit

\* parse_account_field of each field in turn; the first error ends parsing.
RECURSIVE parse_account_fields(_, _)
parse_account_fields(i, accs_) ==
    IF i > Len(accs_) THEN OkUnit
    ELSE LET r == validate_wrapper_constraint_compatibility(accs_[i].ty,
                                                            accs_[i].constraints)
         IN  IF ~r.ok THEN r ELSE parse_account_fields(i + 1, accs_)

\* Parsing the #[derive(Accounts)] struct.
Parse ==
    /\ pc = "parse"
    /\ LET r == parse_account_fields(1, accs)
       IN  IF r.ok
           THEN pc' = "compile" /\ result' = result
           ELSE pc' = "parse_error" /\ result' = [ok |-> FALSE, err |-> r.err]
    /\ UNCHANGED <<accs, program_id, supplied, accounts, self, avm, cli>>

NextParse == Parse \/ Compile \/ TryAccountsField \/ Validate

\* Structs { data, authority } as written: `data` of any type up to MaxDepth
\* wrappers, Option<..> or not, with no attribute, mut, init, zero or realloc.
ParseWrapperTys ==
    {TyMut, TyExecutable, TyOwned("ThisProgram"), TySeeded("ConfigSeeds"),
     TyHasOne("authority")}

RECURSIVE ParseTysOfDepth(_)
ParseTysOfDepth(d) ==
    IF d = 0 THEN {<<>>}
    ELSE {<<W>> \o T : W \in ParseWrapperTys, T \in ParseTysOfDepth(d - 1)}

ParseTys == UNION {ParseTysOfDepth(d) : d \in 0 .. MaxDepth}

ParseAttrs == {"none", "mut", "init", "zero", "realloc"}

ParseField(ident, ty, attr, is_optional) ==
    LET f == Field(ident, ty, is_optional, attr \in {"mut", "init", "realloc"},
                   FALSE, attr = "init")
    IN  IF attr = "zero" THEN Zeroed(f)
        ELSE IF attr = "realloc" THEN Realloc(f)
        ELSE f

InitParse ==
    /\ \E ty \in ParseTys, attr \in ParseAttrs, od \in BOOLEAN :
          accs = << ParseField("data", ty, attr, od),
                    ParseField("authority", <<>>, "none", FALSE) >>
    /\ program_id = IdOf("ThisProgram")
    /\ \E w \in BOOLEAN, a \in SchemaKeys :
          supplied = << AccountInfo(2, w, FALSE, IdOf("ThisProgram"), TRUE, a),
                        AccountInfo(1, FALSE, FALSE, 0, TRUE, 1) >>
    /\ accounts = supplied
    /\ self = <<>>
    /\ pc = "parse"
    /\ result = [ok |-> TRUE, err |-> NoError]
    /\ avm = NoAvm
    /\ cli = NoCli

SpecParse == InitParse /\ [][NextParse]_vars

\* ----------------------------------------------------- to_account_metas
\* AccountMeta
AccountMeta(key, signer, writable) ==
    [pubkey |-> key, is_signer |-> signer, is_writable |-> writable]

\* Option<bool>: <<>> is None, <<b>> is Some(b).
UnwrapOr(opt, default) == IF opt = <<>> THEN default ELSE opt[1]

\* T::to_account_metas of the innermost value, any T: ToAccountMetas: one
\* meta per account it holds, in order; the argument overrides the signer
\* flag.
BaseToAccountMetas(v, is_signer_) ==
    [i \in 1 .. Len(v.infos) |->
        AccountMeta(v.infos[i].key, UnwrapOr(is_signer_, v.infos[i].is_signer),
                    v.infos[i].is_writable)]

RECURSIVE to_account_metas(_, _)

\* Faulty variant of MutToAccountMetas: plain delegation, as in the other
\* wrappers.
MutToAccountMetasDelegating(v, is_signer_) == to_account_metas(Inner(v), is_signer_)

\* impl ToAccountMetas for Mut<T>: the inner metas, each forced writable.
MutToAccountMetas(v, is_signer_) ==
    LET metas == to_account_metas(Inner(v), is_signer_)
    IN  [i \in 1 .. Len(metas) |->
            AccountMeta(metas[i].pubkey, metas[i].is_signer, TRUE)]

\* impl ToAccountMetas for Seeded, Owned, Executable, HasOne: delegation.
SeededToAccountMetas(v, is_signer_) == to_account_metas(Inner(v), is_signer_)
OwnedToAccountMetas(v, is_signer_) == to_account_metas(Inner(v), is_signer_)
ExecutableToAccountMetas(v, is_signer_) == to_account_metas(Inner(v), is_signer_)
HasOneToAccountMetas(v, is_signer_) == to_account_metas(Inner(v), is_signer_)

\* <Ty as ToAccountMetas>::to_account_metas, by the outermost layer.
to_account_metas(v, is_signer_) ==
    IF v.layers = <<>> THEN BaseToAccountMetas(v, is_signer_)
    ELSE CASE Head(v.layers).w = "Mut" -> MutToAccountMetas(v, is_signer_)
           [] Head(v.layers).w = "Seeded" -> SeededToAccountMetas(v, is_signer_)
           [] Head(v.layers).w = "Owned" -> OwnedToAccountMetas(v, is_signer_)
           [] Head(v.layers).w = "Executable" -> ExecutableToAccountMetas(v, is_signer_)
           [] Head(v.layers).w = "HasOne" -> HasOneToAccountMetas(v, is_signer_)

\* Mut::new, Executable::new, Owned::new, HasOne::new and Seeded::new(inner,
\* bump, seeds): construction without validation, layer by layer.
RECURSIVE New(_, _)
New(ty, infos) ==
    IF ty = <<>>
    THEN [present |-> TRUE, info |-> infos[1], layers |-> <<>>, infos |-> infos]
    ELSE Wrap(IF Head(ty).w = "Seeded"
              THEN [w |-> "Seeded", bump |-> U8Max, seeds |-> SeedsOf(Head(ty).arg)]
              ELSE Layer(Head(ty).w),
              New(Tail(ty), infos))

\* A call of to_account_metas on the value built.
ToAccountMetasCall ==
    /\ pc = "built"
    /\ \E is_signer_ \in {<<>>, <<TRUE>>, <<FALSE>>} :
          result' = [ok |-> TRUE, err |-> NoError,
                     call |-> [name |-> "to_account_metas", is_signer |-> is_signer_],
                     metas |-> to_account_metas(self[1], is_signer_)]
    /\ pc' = "metas"
    /\ UNCHANGED <<accs, program_id, supplied, accounts, self, avm, cli>>

NextMetas == ToAccountMetasCall

\* The accounts of the innermost value: one or two, any key and flags.
MetaAccounts ==
    {[AccountInfo(k, w, FALSE, 0, TRUE, 1) EXCEPT !.is_signer = sg] :
        k \in Pubkey, w \in BOOLEAN, sg \in BOOLEAN}

InitMetas ==
    /\ supplied \in UNION {[1 .. n -> MetaAccounts] : n \in 1 .. 2}
    /\ \E ty \in ParseTys :
          /\ accs = << Field("data", ty, FALSE, FALSE, FALSE, FALSE) >>
          /\ self = << New(ty, supplied) >>
    /\ program_id = IdOf("ThisProgram")
    /\ accounts = <<>>
    /\ pc = "built"
    /\ result = [ok |-> TRUE, err |-> NoError]
    /\ avm = NoAvm
    /\ cli = NoCli

SpecMetas == InitMetas /\ [][NextMetas]_vars

\* ------------------------------------------------ avm: version manager
\* Number of anchor-cli versions of the model: Versions == 1 .. NumVersions.
NumVersions == 3

Versions == 1 .. NumVersions

\* Version::to_string, and str::parse::<Version> of the text of the .version
\* file: the empty file ensure_paths creates does not parse.
VersionToString(version) == <<version>>

ParseVersion(text) ==
    IF Len(text) = 1 /\ text[1] \in Versions
    THEN [ok |-> TRUE, version |-> text[1]]
    ELSE [ok |-> FALSE, version |-> 0]

\* anyhow!(..): the message and the version formatted into it (0: none).
AvmError(msg, version) == [msg |-> msg, version |-> version]
NoAvmError == AvmError("", 0)

\* The home directory $AVM_HOME: the versions with a binary bin/anchor-{v}
\* and the text of .version.
AvmHome(bin, version_file) == [bin |-> bin, version_file |-> version_file]

AvmOk(home) == [ok |-> TRUE, err |-> NoAvmError, home |-> home]
AvmErr(err, home) == [ok |-> FALSE, err |-> err, home |-> home]

\* version_binary_path(version).exists()
version_binary_exists(home, version) == version \in home.bin

\* current_version: reads and parses .version.
current_version(home) ==
    LET p == ParseVersion(home.version_file)
    IN  IF p.ok THEN [ok |-> TRUE, version |-> p.version, err |-> NoAvmError]
        ELSE [ok |-> FALSE, version |-> 0,
              err |-> AvmError("Could not parse version file", 0)]

\* read_installed_versions: the anchor-{v} entries of the bin directory.
read_installed_versions(home) == home.bin

RECURSIVE install_version(_, _, _, _)

\* use_version(Some(version)): a version not installed is installed on the
\* answer "y", else rejected; an installed one is written to .version.
use_version(home, version, input) ==
    IF version \notin read_installed_versions(home)
    THEN IF input \in {"y", "yes"}
         THEN install_version(home, version, FALSE, "ok")
         ELSE AvmErr(AvmError("Installation rejected.", 0), home)
    ELSE AvmOk([home EXCEPT !.version_file = VersionToString(version)])

\* install_version(InstallTarget::Version(version), force, ..).  outcome is
\* what the environment does: the download fails, or the binary is written
\* and a later step (set_permissions) fails, or every step succeeds.
install_version(home, version, force, outcome) ==
    IF ~force /\ version \in read_installed_versions(home) THEN AvmOk(home)
    ELSE IF outcome = "download_failed"
    THEN AvmErr(AvmError("Failed to download the binary for version", version),
                home)
    ELSE LET written == [home EXCEPT !.bin = @ \cup {version}]
         IN  IF outcome = "permissions_failed"
             THEN AvmErr(AvmError("io", 0), written)
             ELSE LET current ==
                          IF ~current_version(written).ok
                          THEN [written EXCEPT
                                   !.version_file = VersionToString(version)]
                          ELSE written
                  IN  use_version(current, version, "n")

\* Faulty variant of uninstall_version: the version in use is not looked at.
uninstall_version_any(home, version, remove_ok) ==
    IF ~version_binary_exists(home, version)
    THEN AvmErr(AvmError("is not installed", version), home)
    ELSE IF ~remove_ok THEN AvmErr(AvmError("io", 0), home)
    ELSE AvmOk([home EXCEPT !.bin = @ \ {version}])

\* uninstall_version(version); remove_ok is whether fs::remove_file succeeds.
uninstall_version(home, version, remove_ok) ==
    IF ~version_binary_exists(home, version)
    THEN AvmErr(AvmError("is not installed", version), home)
    ELSE LET c == current_version(home)
         IN  IF ~c.ok THEN AvmErr(c.err, home)
             ELSE IF version = c.version
             THEN AvmErr(AvmError("is currently in use", version), home)
             ELSE IF ~remove_ok THEN AvmErr(AvmError("io", 0), home)
             ELSE AvmOk([home EXCEPT !.bin = @ \ {version}])

\* One command of avm: the call, the home directory it leaves, its Result.
AvmAfter(name, version, r) ==
    [op |-> "avm", home |-> r.home, call |-> [name |-> name, version |-> version],
     ok |-> r.ok, err |-> r.err]

Idle ==
    /\ accs = <<>>
    /\ program_id = 0
    /\ supplied = <<>>
    /\ accounts = <<>>
    /\ self = <<>>
    /\ pc = "idle"
    /\ result = [ok |-> TRUE, err |-> NoError]

UseVersion ==
    /\ avm.op = "avm"
    /\ \E version \in Versions, input \in {"y", "n"} :
          avm' = AvmAfter("use_version", version,
                          use_version(avm.home, version, input))
    /\ UNCHANGED <<accs, program_id, supplied, accounts, self, pc, result, cli>>

InstallVersion ==
    /\ avm.op = "avm"
    /\ \E version \in Versions, force \in BOOLEAN,
          outcome \in {"download_failed", "permissions_failed", "ok"} :
          avm' = AvmAfter("install_version", version,
                          install_version(avm.home, version, force, outcome))
    /\ UNCHANGED <<accs, program_id, supplied, accounts, self, pc, result, cli>>

UninstallVersion ==
    /\ avm.op = "avm"
    /\ \E version \in Versions, remove_ok \in BOOLEAN :
          avm' = AvmAfter("uninstall_version", version,
                          uninstall_version(avm.home, version, remove_ok))
    /\ UNCHANGED <<accs, program_id, supplied, accounts, self, pc, result, cli>>

NextAvm == UseVersion \/ InstallVersion \/ UninstallVersion

\* The home directory as ensure_paths leaves a new one: no binary, an empty
\* .version file.
InitAvm ==
    /\ Idle
    /\ avm = AvmAfter("ensure_paths", 0, AvmOk(AvmHome({}, <<>>)))
    /\ cli = NoCli

SpecAvm == InitAvm /\ [][NextAvm]_vars

\* ------------------------------------------------- anchor program deploy
\* The keypairs a cluster account can name as its upgrade authority; 0 is
\* the None of an immutable program.
NumKeypairs == 2
Keypairs == 1 .. NumKeypairs
NoAuthority == 0

\* The program account on the cluster, and the ProgramData account its
\* Program state points to.
ProgramAccounts ==
    {[exists |-> FALSE, owner |-> "none", state |-> "none"]}
    \cup [exists : {TRUE}, owner : {"bpf_loader_upgradeable", "other"},
          state : {"Program", "Buffer"}]

ProgramDataAccounts ==
    {[exists |-> FALSE, state |-> "none", upgrade_authority_address |-> NoAuthority]}
    \cup {[exists |-> TRUE, state |-> "Uninitialized",
           upgrade_authority_address |-> NoAuthority]}
    \cup [exists : {TRUE}, state : {"ProgramData"},
          upgrade_authority_address : {NoAuthority} \cup Keypairs]

CliOk == [ok |-> TRUE, err |-> ""]
CliErr(msg) == [ok |-> FALSE, err |-> msg]

\* RpcClient::get_account: Err when the request fails or the cluster has no
\* such account.
get_account(account, rpc_ok) == rpc_ok /\ account.exists

\* Faulty variant of verify_program_can_be_upgraded: the upgrade authority
\* is not compared with the supplied one.
verify_program_any_authority(cluster, upgrade_authority, rpc_program, rpc_programdata) ==
    IF ~get_account(cluster.program, rpc_program)
    THEN CliErr("Failed to get program account")
    ELSE IF cluster.program.owner # "bpf_loader_upgradeable"
    THEN CliErr("is not an upgradeable program")
    ELSE IF cluster.program.state # "Program"
    THEN CliErr("is not an upgradeable program account")
    ELSE IF ~get_account(cluster.programdata, rpc_programdata)
    THEN CliErr("Failed to get ProgramData account")
    ELSE IF cluster.programdata.state # "ProgramData"
    THEN CliErr("has been closed or is in an invalid state")
    ELSE IF cluster.programdata.upgrade_authority_address = NoAuthority
    THEN CliErr("is immutable and cannot be upgraded")
    ELSE CliOk

\* verify_program_can_be_upgraded: the program account is fetched again and
\* must be owned by the upgradeable loader and hold a Program state; the
\* ProgramData account must exist, hold a ProgramData state, and name the
\* supplied upgrade authority.
verify_program_can_be_upgraded(cluster, upgrade_authority, rpc_program, rpc_programdata) ==
    IF ~get_account(cluster.program, rpc_program)
    THEN CliErr("Failed to get program account")
    ELSE IF cluster.program.owner # "bpf_loader_upgradeable"
    THEN CliErr("is not an upgradeable program")
    ELSE IF cluster.program.state # "Program"
    THEN CliErr("is not an upgradeable program account")
    ELSE IF ~get_account(cluster.programdata, rpc_programdata)
    THEN CliErr("Failed to get ProgramData account")
    ELSE IF cluster.programdata.state # "ProgramData"
    THEN CliErr("has been closed or is in an invalid state")
    ELSE IF cluster.programdata.upgrade_authority_address = NoAuthority
    THEN CliErr("is immutable and cannot be upgraded")
    ELSE IF cluster.programdata.upgrade_authority_address # upgrade_authority
    THEN CliErr("Upgrade authority mismatch")
    ELSE CliOk

\* The command returns: nothing more is called or sent.
Returned(c, r) == [c EXCEPT !.at = "returned", !.ok = r.ok, !.err = r.err]

Called(c, name) == [c EXCEPT !.calls = Append(@, name)]

Sent(c, tx) == [c EXCEPT !.sent = Append(@, tx)]

\* The buffer of the deployment: the one given with --buffer, else a new one
\* written by write_program_buffer, whose transactions may fail before or
\* after the first of them was sent.
WriteBuffer(c, outcome, then) ==
    IF c.args.buffer
    THEN [c EXCEPT !.at = then]
    ELSE LET called == Called(c, "write_program_buffer")
         IN  IF outcome = "failed_unsent"
             THEN Returned(called, CliErr("write_program_buffer"))
             ELSE IF outcome = "failed_sent"
             THEN Returned(Sent(called, "write_buffer"), CliErr("write_program_buffer"))
             ELSE [Sent(called, "write_buffer") EXCEPT !.at = then]

\* upgrade_program: verifies the program again, then the buffer, then sends
\* the upgrade transaction.
upgrade_program(c, rpc_program, rpc_programdata, buffer_ok, send_ok) ==
    LET called == Called(Called(c, "upgrade_program"),
                         "verify_program_can_be_upgraded")
        v == verify_program_can_be_upgraded(c.cluster, c.args.upgrade_authority,
                                            rpc_program, rpc_programdata)
    IN  IF ~v.ok THEN Returned(called, v)
        ELSE IF ~buffer_ok THEN Returned(called, CliErr("verify_buffer_account"))
        ELSE IF ~send_ok
        THEN Returned(Sent(called, "upgrade"), CliErr("Failed to upgrade program"))
        ELSE [Sent(called, "upgrade") EXCEPT !.at = "idl"]

\* deploy_program: sends the deploy transaction of a new program.
deploy_program(c, send_ok) ==
    LET called == Called(c, "deploy_program")
    IN  IF ~send_ok
        THEN Returned(Sent(called, "deploy"), CliErr("Failed to deploy program"))
        ELSE [Sent(called, "deploy") EXCEPT !.at = "idl"]

\* program_deploy up to its first request: the program file and the keypairs
\* are read, then the program account is asked for.
GetProgramAccount ==
    /\ cli.op = "deploy"
    /\ cli.at = "start"
    /\ \E loaded \in BOOLEAN, rpc_ok \in BOOLEAN :
          cli' = IF ~loaded
                 THEN Returned(cli, CliErr("Failed to read"))
                 ELSE LET called == Called(cli, "get_account")
                      IN  IF get_account(cli.cluster.program, rpc_ok)
                          THEN [called EXCEPT !.is_ok = TRUE, !.at = "verify"]
                          ELSE [called EXCEPT !.at = "deploy_buffer"]
    /\ UNCHANGED <<accs, program_id, supplied, accounts, self, pc, result, avm>>

\* The program exists: verify_program_can_be_upgraded, `?`.
VerifyProgramCanBeUpgraded ==
    /\ cli.op = "deploy"
    /\ cli.at = "verify"
    /\ \E rpc_program \in BOOLEAN, rpc_programdata \in BOOLEAN :
          LET called == Called(cli, "verify_program_can_be_upgraded")
              v == verify_program_can_be_upgraded(cli.cluster,
                       cli.args.upgrade_authority, rpc_program, rpc_programdata)
          IN  cli' = IF v.ok THEN [called EXCEPT !.at = "upgrade_buffer"]
                     ELSE Returned(called, v)
    /\ UNCHANGED <<accs, program_id, supplied, accounts, self, pc, result, avm>>

\* The program exists and can be upgraded: the buffer.
WriteUpgradeBuffer ==
    /\ cli.op = "deploy"
    /\ cli.at = "upgrade_buffer"
    /\ \E outcome \in {"failed_unsent", "failed_sent", "ok"} :
          cli' = WriteBuffer(cli, outcome, "upgrade")
    /\ UNCHANGED <<accs, program_id, supplied, accounts, self, pc, result, avm>>

UpgradeProgram ==
    /\ cli.op = "deploy"
    /\ cli.at = "upgrade"
    /\ \E rpc_program \in BOOLEAN, rpc_programdata \in BOOLEAN,
          buffer_ok \in BOOLEAN, send_ok \in BOOLEAN :
          cli' = upgrade_program(cli, rpc_program, rpc_programdata,
                                 buffer_ok, send_ok)
    /\ UNCHANGED <<accs, program_id, supplied, accounts, self, pc, result, avm>>

\* No program account was returned: a new deployment, the buffer.
WriteDeployBuffer ==
    /\ cli.op = "deploy"
    /\ cli.at = "deploy_buffer"
    /\ \E outcome \in {"failed_unsent", "failed_sent", "ok"} :
          cli' = WriteBuffer(cli, outcome, "deploy")
    /\ UNCHANGED <<accs, program_id, supplied, accounts, self, pc, result, avm>>

DeployProgram ==
    /\ cli.op = "deploy"
    /\ cli.at = "deploy"
    /\ \E send_ok \in BOOLEAN : cli' = deploy_program(cli, send_ok)
    /\ UNCHANGED <<accs, program_id, supplied, accounts, self, pc, result, avm>>

\* The IDL, unless --no-idl or no IDL file: its deployment may fail.
DeployIdl ==
    /\ cli.op = "deploy"
    /\ cli.at = "idl"
    /\ \E deploy_idl \in BOOLEAN, idl_ok \in BOOLEAN :
          cli' = IF ~deploy_idl THEN Returned(cli, CliOk)
                 ELSE IF idl_ok THEN Returned(Sent(cli, "idl"), CliOk)
                 ELSE Returned(Sent(cli, "idl"), CliErr("idl"))
    /\ UNCHANGED <<accs, program_id, supplied, accounts, self, pc, result, avm>>

NextDeploy ==
    \/ GetProgramAccount
    \/ VerifyProgramCanBeUpgraded
    \/ WriteUpgradeBuffer
    \/ UpgradeProgram
    \/ WriteDeployBuffer
    \/ DeployProgram
    \/ DeployIdl

\* The command as it is entered: any cluster, any upgrade authority, with
\* or without --buffer.
InitDeploy ==
    /\ Idle
    /\ avm = NoAvm
    /\ \E program \in ProgramAccounts, programdata \in ProgramDataAccounts,
          upgrade_authority \in Keypairs, buffer \in BOOLEAN :
          cli = [op |-> "deploy",
                 cluster |-> [program |-> program, programdata |-> programdata],
                 args |-> [upgrade_authority |-> upgrade_authority,
                           buffer |-> buffer],
                 at |-> "start", is_ok |-> FALSE, calls |-> <<>>,
                 sent |-> <<>>, ok |-> TRUE, err |-> ""]

SpecDeploy == InitDeploy /\ [][NextDeploy]_vars

\* ============================================================ properties
\* What the supplied accounts and the declared fields say, read off the
\* inputs of the invocation (field i is bound to supplied[i]).
FieldIdx == 1 .. Len(accs)

IsHasOneField(i) == accs[i].ty # <<>> /\ Head(accs[i].ty).w = "HasOne"

TargetIdx(i) == CHOOSE j \in FieldIdx : accs[j].ident = Head(accs[i].ty).arg

\* The relationship of field i does not hold.
Mismatch(i) ==
    /\ IsHasOneField(i)
    /\ supplied[i].authority # supplied[TargetIdx(i)].key

\* Fields i < j are both declared writable, get the same key, and neither is
\* marked dup.
AliasingPair(i, j) ==
    /\ i < j
    /\ accs[i].constraints.mutable /\ accs[j].constraints.mutable
    /\ ~accs[i].constraints.dup /\ ~accs[j].constraints.dup
    /\ supplied[i].key = supplied[j].key

SomeAliasingPair == \E i, j \in FieldIdx : AliasingPair(i, j)

\* Field i is declared writable and its account is not writable.
NotWritable(i) == accs[i].constraints.mutable /\ ~supplied[i].is_writable

Validated == pc = "done"

\* C1: validate succeeds on a HasOne relationship exactly when the extracted
\* field equals the key of the field named by FIELD; a mismatch is reported as
\* ConstraintHasOne named after the dependent field, not after the target.
C1_HasOneIff ==
    Validated =>
        /\ (\E i \in FieldIdx : Mismatch(i)) => ~result.ok
        /\ result.err.code = "ConstraintHasOne" =>
              \E i \in FieldIdx :
                  /\ Mismatch(i)
                  /\ result.err.name = <<accs[i].ident>>
                  /\ result.err.name # <<accs[TargetIdx(i)].ident>>
        /\ ( /\ \E i \in FieldIdx : Mismatch(i)
             /\ ~SomeAliasingPair
             /\ \A i \in FieldIdx : ~NotWritable(i) )
              => result.err.code = "ConstraintHasOne"
        /\ ( /\ \A i \in FieldIdx : ~Mismatch(i)
             /\ ~SomeAliasingPair
             /\ \A i \in FieldIdx : ~NotWritable(i) )
              => result.ok

C1_Witness ==
    /\ Validated
    /\ result.err.code = "ConstraintHasOne"
    /\ \E i \in FieldIdx : IsHasOneField(i) /\ ~Mismatch(i)

\* C2: two writable fields with the same key, neither marked dup, make
\* validate fail with DuplicateMutableAccount, whatever a third field carries.
C2_DuplicateMutableFails ==
    Validated =>
        (SomeAliasingPair =>
            ~result.ok /\ result.err.code = "DuplicateMutableAccount")

C2_Witness ==
    /\ Validated
    /\ result.err.code = "DuplicateMutableAccount"
    /\ \E i, j, k \in FieldIdx :
          /\ AliasingPair(i, j)
          /\ k \notin {i, j}
          /\ accs[k].constraints.dup
          /\ supplied[k].key = supplied[i].key

\* The sequence s with its entries i and j exchanged.
Swap(s, i, j) ==
    [k \in 1 .. Len(s) |-> IF k = i THEN s[j] ELSE IF k = j THEN s[i] ELSE s[k]]

\* C5: a relationship check runs only once every field is resolved, and it
\* compares against the key of the named target: validate gives the same
\* outcome with the target declared before or after the dependent field.
C5_TargetOrderIrrelevant ==
    /\ pc \in {"validate", "done"} => Len(self) = Len(accs)
    /\ result.err.code = "ConstraintHasOne" => Validated
    /\ Validated =>
          \A i \in FieldIdx :
              IsHasOneField(i) =>
                  validate(Swap(accs, i, TargetIdx(i)),
                           Swap(self, i, TargetIdx(i))).ok = result.ok

C5_Witness ==
    /\ Validated
    /\ result.ok
    /\ \E i, k \in FieldIdx :
          /\ IsHasOneField(i) /\ TargetIdx(i) > i
          /\ IsHasOneField(k) /\ TargetIdx(k) < k

\* Fields i < j are both declared writable and get the same key, and exactly
\* one of the two is marked dup.
OneSidedPair(i, j) ==
    /\ i < j
    /\ accs[i].constraints.mutable /\ accs[j].constraints.mutable
    /\ accs[i].constraints.dup # accs[j].constraints.dup
    /\ supplied[i].key = supplied[j].key

\* C6: a pair of writable fields with the same key of which one is marked
\* dup, whichever it is, never fails the duplicate check, and validate
\* succeeds when no other check fails.
C6_SingleSidedOptOut ==
    Validated =>
        /\ result.err.code = "DuplicateMutableAccount" =>
              \E i, j \in FieldIdx :
                  /\ AliasingPair(i, j)
                  /\ result.err.name = <<accs[i].ident, accs[j].ident>>
        /\ ( /\ \E i, j \in FieldIdx : OneSidedPair(i, j)
             /\ ~SomeAliasingPair
             /\ \A i \in FieldIdx : ~NotWritable(i) /\ ~Mismatch(i) )
              => result.ok

C6_Witness ==
    /\ Validated
    /\ result.ok
    /\ \E i, j \in FieldIdx :
          OneSidedPair(i, j) /\ accs[i].constraints.dup

\* C9: the duplicate check runs before the relationship checks: with an
\* aliasing pair and a relationship mismatch in one pass, validate returns
\* DuplicateMutableAccount, not ConstraintHasOne.
C9_DuplicateBeforeHasOne ==
    Validated =>
        /\ (SomeAliasingPair /\ \E i \in FieldIdx : Mismatch(i))
              => result.err.code = "DuplicateMutableAccount"
        /\ result.err.code = "ConstraintHasOne" => ~SomeAliasingPair

C9_Witness ==
    /\ Validated
    /\ result.err.code = "DuplicateMutableAccount"
    /\ \E i \in FieldIdx : Mismatch(i)

\* Some check of field i would fail.
FieldFails(i) ==
    \/ Mismatch(i)
    \/ NotWritable(i)
    \/ \E j \in FieldIdx : AliasingPair(i, j) \/ AliasingPair(j, i)

Least(S) == CHOOSE x \in S : \A y \in S : x <= y

\* C10 as claimed: validate returns one error, and when checks of two fields
\* would fail it is the error of the field declared first.
C10_EarliestFieldFirst ==
    (Validated /\ ~result.ok) =>
        \E n \in 1 .. Len(result.err.name) :
            result.err.name[n] = accs[Least({i \in FieldIdx : FieldFails(i)})].ident

\* C10, by kind: validate returns the error of the first failing check, the
\* checks running kind by kind: the duplicate check, then the attribute
\* checks in declared order, then the relationship checks in declared order;
\* of two failing checks of one kind the earlier field's error is returned.
C10_FailFastByKind ==
    Validated =>
        IF SomeAliasingPair
        THEN /\ ~result.ok
             /\ result.err.code = "DuplicateMutableAccount"
             /\ \E i, j \in FieldIdx :
                   AliasingPair(i, j) /\ result.err.name = <<accs[i].ident, accs[j].ident>>
        ELSE IF \E i \in FieldIdx : NotWritable(i)
        THEN /\ ~result.ok
             /\ result.err =
                   [code |-> "ConstraintMut",
                    name |-> <<accs[Least({i \in FieldIdx : NotWritable(i)})].ident>>,
                    pubkeys |-> NoPubkeys]
        ELSE IF \E i \in FieldIdx : Mismatch(i)
        THEN /\ ~result.ok
             /\ result.err =
                   [code |-> "ConstraintHasOne",
                    name |-> <<accs[Least({i \in FieldIdx : Mismatch(i)})].ident>>,
                    pubkeys |-> NoPubkeys]
        ELSE result.ok /\ result.err = NoError

C10_Witness ==
    /\ Validated
    /\ result.err.code = "ConstraintHasOne"
    /\ \E i, j \in FieldIdx :
          i < j /\ Mismatch(i) /\ Mismatch(j) /\ result.err.name = <<accs[i].ident>>

\* ------------------------------------------- properties of one field
\* The first field of the struct, `data`, and its step of try_accounts.
DataTy == accs[1].ty
DataOk == Len(self) >= 1
DataErr == Len(self) = 0 /\ pc = "err_try_accounts"
DataDone == DataOk \/ DataErr
OutermostIs(w) == DataTy # <<>> /\ Head(DataTy).w = w

\* T::try_accounts of the type inside the outermost wrapper of `data`.
InnerOfData == TryAccounts(Tail(DataTy), program_id, supplied)

\* The derivation stated on its own: a bump is canonical when its candidate
\* is off the curve and the candidate of every greater bump is on it; the
\* derived address is the candidate of the canonical bump.
IsCanonicalBump(seed_slices, pid, b) ==
    /\ CreateProgramAddress(seed_slices \o << <<b>> >>, pid).valid
    /\ \A c \in (b + 1) .. U8Max :
          ~CreateProgramAddress(seed_slices \o << <<c>> >>, pid).valid

CanonicalBump(seed_slices, pid) ==
    U8Max - (CHOOSE k \in 0 .. U8Max : IsCanonicalBump(seed_slices, pid, U8Max - k))

DerivedAddress(seed_slices, pid) ==
    CreateProgramAddress(seed_slices \o << <<CanonicalBump(seed_slices, pid)>> >>,
                         pid).address

\* C3: Seeded<T, S> resolves exactly when T resolves and the key is the
\* address derived from S's seeds and the program id; the wrapper then holds
\* the canonical bump and the provider's seeds; a wrong key is reported as
\* ConstraintSeeds carrying (supplied key, derived address).
C3_SeededIff ==
    (DataDone /\ OutermostIs("Seeded")) =>
        LET seed_slices == SeedsOf(Head(DataTy).arg)
            derived == DerivedAddress(seed_slices, program_id)
            inner == InnerOfData
        IN  /\ DataOk <=> (inner.ok /\ inner.val.info.key = derived)
            /\ DataOk =>
                  /\ SeededBump(self[1]) = CanonicalBump(seed_slices, program_id)
                  /\ SeededSeeds(self[1]) = seed_slices
                  /\ Inner(self[1]) = inner.val
            /\ (inner.ok /\ inner.val.info.key # derived) =>
                  /\ DataErr
                  /\ result.err = [code |-> "ConstraintSeeds", name |-> NoName,
                                   pubkeys |-> <<supplied[1].key, derived>>]

C3_Witness ==
    /\ DataOk
    /\ OutermostIs("Seeded")
    /\ SeededBump(self[1]) < U8Max
    /\ Len(SeededSeeds(self[1])) = 2

\* C4: HasOne<T, Target>::try_accounts compares nothing: it succeeds exactly
\* when T resolves and fails with T's error; ConstraintHasOne is reported by
\* validate only.
C4_HasOneDeferred ==
    /\ (DataDone /\ OutermostIs("HasOne")) =>
          /\ DataOk <=> InnerOfData.ok
          /\ DataOk => Inner(self[1]) = InnerOfData.val
          /\ DataErr => result.err = InnerOfData.err
    /\ ~Validated => result.err.code # "ConstraintHasOne"

C4_Witness ==
    /\ pc = "validate"
    /\ OutermostIs("HasOne")
    /\ supplied[1].authority # supplied[2].key
    /\ supplied[1].authority # supplied[1].key

\* What the check of one wrapper layer says of an account, and its error.
LayerFails(W, info, pid) ==
    CASE W.w = "Mut" -> ~info.is_writable
      [] W.w = "Executable" -> ~info.executable
      [] W.w = "Owned" -> info.owner # IdOf(W.arg)
      [] W.w = "Seeded" -> info.key # DerivedAddress(SeedsOf(W.arg), pid)
      [] W.w = "HasOne" -> FALSE

LayerCode(W) ==
    CASE W.w = "Mut" -> "ConstraintMut"
      [] W.w = "Executable" -> "ConstraintExecutable"
      [] W.w = "Owned" -> "ConstraintOwner"
      [] W.w = "Seeded" -> "ConstraintSeeds"
      [] W.w = "HasOne" -> "ConstraintHasOne"

FailingLayers ==
    {k \in 1 .. Len(DataTy) : LayerFails(DataTy[k], supplied[1], program_id)}

Greatest(S) == CHOOSE x \in S : \A y \in S : y <= x

\* C7: the checks of nested wrappers run inside-out and stop at the first
\* failure: the base type's error if it does not resolve, else the error of
\* the innermost wrapper whose check fails; no outer check replaces it.
C7_InsideOut ==
    DataDone =>
        IF supplied = <<>>
        THEN DataErr /\ result.err = Error("MissingAccount")
        ELSE IF ~supplied[1].disc
        THEN DataErr /\ result.err = Error("AccountDiscriminatorMismatch")
        ELSE IF FailingLayers # {}
        THEN DataErr /\ result.err.code = LayerCode(DataTy[Greatest(FailingLayers)])
        ELSE DataOk

C7_Witness ==
    /\ DataErr
    /\ DataTy = <<TyMut, TySeeded("ConfigSeeds")>>
    /\ FailingLayers = {1, 2}
    /\ result.err.code = "ConstraintSeeds"

CheckedWrappers == {"Mut", "Executable", "Owned", "Seeded"}

\* C8: exchanging two neighbouring wrappers among Mut, Executable, Owned and
\* Seeded does not change whether the field resolves.
C8_CompositionCommutes ==
    (DataDone /\ \A k \in 1 .. Len(DataTy) : DataTy[k].w \in CheckedWrappers) =>
        \A k \in 1 .. (Len(DataTy) - 1) :
            TryAccounts(Swap(DataTy, k, k + 1), program_id, supplied).ok = DataOk

C8_Witness ==
    /\ DataOk
    /\ DataTy = <<TyMut, TySeeded("ConfigSeeds")>>

\* C11: the derivation behind Seeded returns the candidate and the bump of the
\* first bump, searching 255, 254, .., 0, whose candidate is off the curve: no
\* greater bump has an off-curve candidate, and deriving again from the same
\* seeds and program id gives the pair the wrapper compared and captured.
C11_CanonicalDerivation ==
    (DataDone /\ OutermostIs("Seeded") /\ InnerOfData.ok) =>
        LET seed_slices == SeedsOf(Head(DataTy).arg)
            r == FindProgramAddress(seed_slices, program_id)
        IN  /\ r.found
            /\ r.bump \in 0 .. U8Max
            /\ CreateProgramAddress(seed_slices \o << <<r.bump>> >>, program_id)
                  = [valid |-> TRUE, address |-> r.address]
            /\ \A c \in (r.bump + 1) .. U8Max :
                  ~CreateProgramAddress(seed_slices \o << <<c>> >>, program_id).valid
            /\ DataOk => /\ SeededBump(self[1]) = r.bump
                         /\ pubkey(self[1]) = r.address
            /\ DataErr => result.err.pubkeys = <<supplied[1].key, r.address>>

C11_Witness ==
    /\ DataOk
    /\ OutermostIs("Seeded")
    /\ SeededBump(self[1]) < U8Max
    /\ \E b \in 0 .. (SeededBump(self[1]) - 1) :
          CreateProgramAddress(SeededSeeds(self[1]) \o << <<b>> >>, program_id).valid

\* C12: Mut<T>, Executable<T> and Owned<T, P> resolve exactly when T resolves
\* and the rule holds of the account (writable, executable, owner = P::id());
\* when T resolves and the rule fails the error is exactly ConstraintMut,
\* ConstraintExecutable or ConstraintOwner.
C12_SingleRuleIff ==
    (DataDone /\ \E w \in {"Mut", "Executable", "Owned"} : OutermostIs(w)) =>
        LET inner == InnerOfData
            holds == ~LayerFails(Head(DataTy), supplied[1], program_id)
        IN  /\ DataOk <=> (inner.ok /\ holds)
            /\ DataOk => Inner(self[1]) = inner.val
            /\ (inner.ok /\ ~holds) =>
                  DataErr /\ result.err = Error(LayerCode(Head(DataTy)))
            /\ ~inner.ok => DataErr /\ result.err = inner.err

C12_Witness ==
    /\ DataErr
    /\ DataTy = <<TyOwned("ThisProgram"), TyExecutable>>
    /\ result.err = Error("ConstraintOwner")
    /\ supplied[1].owner = program_id

\* The HasOne wrappers in the chain of `data`, by position (1 is outermost),
\* and whether the relationship of the wrapper at position k holds.
HasOneLayers == {k \in 1 .. Len(DataTy) : DataTy[k].w = "HasOne"}

RelationHolds(k) ==
    supplied[1].authority =
        supplied[CHOOSE j \in FieldIdx : accs[j].ident = FIELD(DataTy[k].arg)].key

WrapperCodes ==
    {"ConstraintMut", "ConstraintExecutable", "ConstraintOwner",
     "ConstraintSeeds", "ConstraintHasOne"}

Failed == pc \in {"err_try_accounts", "done"} /\ ~result.ok

\* C18 as claimed: every error of a wrapper or of validate carries the name
\* of the field or the two keys compared.
C18_EveryErrorHasContext ==
    (Failed /\ result.err.code \in WrapperCodes) =>
        result.err.name # NoName \/ result.err.pubkeys # NoPubkeys

\* C18, by origin: an error of validate carries the name of the field; the
\* ConstraintSeeds of Seeded carries the two keys compared; the errors of
\* Mut, Executable and Owned carry the error code alone.
C18_ErrorContextByOrigin ==
    (Failed /\ result.err.code \in WrapperCodes) =>
        CASE result.err.code = "ConstraintHasOne" ->
                 Validated /\ result.err.name = <<"data">>
          [] result.err.code = "ConstraintSeeds" ->
                 /\ DataErr
                 /\ result.err.name = NoName
                 /\ Len(result.err.pubkeys) = 2
                 /\ result.err.pubkeys[1] = supplied[1].key
                 /\ result.err.pubkeys[1] # result.err.pubkeys[2]
          [] OTHER ->
                 /\ DataErr
                 /\ result.err.name = NoName
                 /\ result.err.pubkeys = NoPubkeys

C18_Witness ==
    /\ DataErr
    /\ result.err = Error("ConstraintOwner")
    /\ DataTy = <<TyOwned("ThisProgram")>>

\* ------------------------------- properties of optional and init fields
\* Whether a field was declared with #[account(zero)] or with
\* #[account(init, ..)], whether a field's chain holds a HasOne, and whether
\* an optional field resolved to None.
IsZeroed(af) == af.constraints.zeroed
IsInit(af) == af.constraints.init
HasHasOne(i) == extract_has_one_ty(accs[i].ty).some
IsNone(i) == accs[i].is_optional /\ ~self[i].present

C16_TargetNone ==
    (Validated /\ HasHasOne(1) /\ self[1].present /\ IsNone(2)) =>
        /\ ~result.ok
        /\ result.err.code # "ConstraintHasOne"
        /\ IF accs[1].constraints.mutable /\ ~is_writable(self[1])
           THEN result.err = WithAccountName(Error("ConstraintMut"), "data")
           ELSE result.err =
                    WithAccountName(Error("ConstraintAccountIsNone"), "authority")

C16_Witness ==
    /\ Validated
    /\ accs[1].ty = <<TyMut, TyHasOne("authority")>>
    /\ ~accs[1].is_optional
    /\ IsNone(2)
    /\ result.err.code = "ConstraintAccountIsNone"

\* C17: an optional field carrying a HasOne that resolved to None has its
\* relationship check skipped: validate does not fail because of it, with
\* its target present under any key or None.
C17_DependentNoneSkipped ==
    (Validated /\ HasHasOne(1) /\ IsNone(1)) =>
        result.ok /\ result.err = NoError

C17_Witness ==
    /\ Validated
    /\ HasHasOne(1) /\ IsNone(1)
    /\ IsNone(2)
    /\ result.ok

\* ---------------------------------------------- properties of accessors
\* C13: through any chain of Mut, Seeded, Owned, Executable and HasOne, the
\* accessors of the outermost wrapper return what the underlying AccountInfo
\* holds.
C13_AccessorsDelegate ==
    DataOk =>
        /\ account_info(self[1]) = supplied[1]
        /\ pubkey(self[1]) = supplied[1].key
        /\ is_signer(self[1]) = supplied[1].is_signer
        /\ is_writable(self[1]) = supplied[1].is_writable
        /\ owner(self[1]) = supplied[1].owner
        /\ lamports(self[1]) = supplied[1].lamports

C13_Witness ==
    /\ DataOk
    /\ DataTy = <<TyHasOne("authority"), TySeeded("ConfigSeeds")>>
    /\ is_signer(self[1])
    /\ lamports(self[1]) = 0

\* C19: each accessor check returns Ok exactly when its predicate holds, and
\* otherwise its own error: AccountNotSigner, AccountNotMutable,
\* AccountOwnedByWrongProgram with (actual owner, expected), ConstraintAddress
\* with (actual key, expected).
C19_AccessorChecks ==
    pc = "handler" =>
        LET info == supplied[1]
            e == result.call.expected
            holds == CASE result.call.name = "check_signer" -> info.is_signer
                       [] result.call.name = "check_writable" -> info.is_writable
                       [] result.call.name = "check_owner" -> info.owner = e
                       [] result.call.name = "check_key" -> info.key = e
            err == CASE result.call.name = "check_signer" ->
                            [code |-> "AccountNotSigner", name |-> NoName,
                             pubkeys |-> NoPubkeys]
                      [] result.call.name = "check_writable" ->
                            [code |-> "AccountNotMutable", name |-> NoName,
                             pubkeys |-> NoPubkeys]
                      [] result.call.name = "check_owner" ->
                            [code |-> "AccountOwnedByWrongProgram", name |-> NoName,
                             pubkeys |-> <<info.owner, e>>]
                      [] result.call.name = "check_key" ->
                            [code |-> "ConstraintAddress", name |-> NoName,
                             pubkeys |-> <<info.key, e>>]
        IN  /\ result.ok <=> holds
            /\ result.ok => result.err = NoError
            /\ ~result.ok => result.err = err

C19_Witness ==
    /\ pc = "handler"
    /\ result.call.name = "check_owner"
    /\ ~result.ok
    /\ Len(DataTy) >= 2

\* A step of validate or of an accessor check leaves the accounts supplied,
\* the accounts left to consume and the resolved fields as they were.
ReadOnlyStep ==
    pc \in {"validate", "done"} =>
        /\ supplied' = supplied
        /\ accounts' = accounts
        /\ self' = self
        /\ accs' = accs
        /\ program_id' = program_id

\* C20: validate and the accessor checks only read: whatever they return,
\* the accounts supplied (key, flags, owner, lamports, data), the accounts
\* left to consume and the resolved fields are unchanged.
C20_ValidationOnlyReads == [][ReadOnlyStep]_vars

C20_Witness ==
    /\ pc = "handler"
    /\ result.call.name = "check_key"
    /\ ~result.ok
    /\ self # <<>> /\ account_info(self[1]) = supplied[1]

\* ------------------------------------------- properties of consumption
\* The fields try_accounts has been called for: those resolved, and the one
\* that failed.
Attempted == Len(self) + (IF pc = "err_try_accounts" THEN 1 ELSE 0)

Min(a, b) == IF a < b THEN a ELSE b

\* C21: a field of any wrapper chain takes from the supplied accounts exactly
\* what its base type takes, one account, also when a wrapper's check fails
\* after the base type resolved; so the k-th field is bound to the k-th
\* supplied account.
C21_SlotOrderConsumption ==
    /\ accounts = SubSeq(supplied, Min(Attempted, Len(supplied)) + 1, Len(supplied))
    /\ Attempted = 1 => accounts = AccountTryAccounts(program_id, supplied).rest
    /\ \A k \in 1 .. Len(self) : account_info(self[k]) = supplied[k]
    /\ pc \in {"validate", "done"} => Len(self) = Len(accs) /\ accounts = <<>>

C21_Witness ==
    /\ DataErr
    /\ Len(DataTy) = MaxDepth
    /\ InnerOfData.ok
    /\ Len(supplied) = 2
    /\ accounts = Tail(supplied)

\* ------------------------------------- properties of read-only fields
\* Field i is declared with `mut`.
DeclaredMut(i) == accs[i].constraints.mutable

\* Fields i < j get the same account and at most one of them is declared
\* writable.
SharedReadOnly(i, j) ==
    /\ i < j
    /\ supplied[i].key = supplied[j].key
    /\ ~(DeclaredMut(i) /\ DeclaredMut(j))

\* C22: a field not declared writable takes no part in the duplicate check:
\* DuplicateMutableAccount names two fields that are both declared writable,
\* and where every same-key pair has a field that is not, validate does not
\* return it.
C22_ReadOnlyNeverDuplicate ==
    Validated =>
        /\ result.err.code = "DuplicateMutableAccount" =>
              \E i, j \in FieldIdx :
                  /\ i < j /\ DeclaredMut(i) /\ DeclaredMut(j)
                  /\ supplied[i].key = supplied[j].key
                  /\ result.err.name = <<accs[i].ident, accs[j].ident>>
        /\ (\A i, j \in FieldIdx :
                (i < j /\ supplied[i].key = supplied[j].key) => SharedReadOnly(i, j))
              => result.err.code # "DuplicateMutableAccount"

C22_Witness ==
    /\ Validated
    /\ result.ok
    /\ \E i, j, k \in FieldIdx :
          /\ SharedReadOnly(i, j) /\ ~DeclaredMut(i) /\ ~DeclaredMut(j)
          /\ DeclaredMut(k) /\ ~accs[k].constraints.dup
          /\ supplied[k].key = supplied[i].key

\* ----------------------------------------- properties of the version manager
\* What a step of uninstall_version(version) does to the home directory.
UninstallStep ==
    (avm'.op = "avm" /\ avm'.call.name = "uninstall_version") =>
        LET version == avm'.call.version
            installed == version \in avm.home.bin
            in_use == avm.home.version_file = <<version>>
        IN  /\ avm'.home.version_file = avm.home.version_file
            /\ avm'.home.bin \in {avm.home.bin, avm.home.bin \ {version}}
            /\ avm'.home.bin # avm.home.bin => (installed /\ ~in_use /\ avm'.ok)
            /\ avm'.ok => (installed /\ ~in_use /\ version \notin avm'.home.bin)
            /\ ~installed =>
                  /\ ~avm'.ok
                  /\ avm'.err = [msg |-> "is not installed", version |-> version]
                  /\ avm'.home = avm.home
            /\ (installed /\ in_use) =>
                  /\ ~avm'.ok
                  /\ avm'.err = [msg |-> "is currently in use", version |-> version]
                  /\ avm'.home = avm.home

\* C24: uninstall_version(v) removes the binary of v only when v is installed
\* and is not the version in use; for a v not installed it returns
\* "anchor-cli v is not installed", for the v in use "anchor-cli v is
\* currently in use", and then no binary is removed and .version is as it was.
C24_UninstallGuards == [][UninstallStep]_vars

C24_Witness ==
    /\ avm.op = "avm"
    /\ avm.call.name = "uninstall_version"
    /\ avm.err = [msg |-> "is currently in use", version |-> avm.call.version]
    /\ avm.call.version \in avm.home.bin
    /\ Cardinality(avm.home.bin) >= 2

\* ------------------------------- properties of validated construction
\* W::try_from_validated(inner) of the wrapper type W; for Seeded the seeds
\* provider is S::default().
TryFromValidated(W, inner, pid) ==
    CASE W.w = "Mut" -> MutTryFromValidated(inner)
      [] W.w = "Executable" -> ExecutableTryFromValidated(inner)
      [] W.w = "Owned" -> OwnedTryFromValidated(inner, W.arg)
      [] W.w = "Seeded" -> SeededTryFromValidated(inner, W.arg, pid)

\* C25: for Mut, Executable, Owned and Seeded, try_accounts gives what
\* try_from_validated gives on the value T::try_accounts produced: the same
\* wrapper on success, the same error on failure; and T's error when T does
\* not resolve.
C25_TryAccountsIsValidatedConstruction ==
    (DataDone /\ \E w \in CheckedWrappers : OutermostIs(w)) =>
        LET inner == InnerOfData
            built == TryFromValidated(Head(DataTy), inner.val, program_id)
        IN  IF inner.ok
            THEN /\ DataOk <=> built.ok
                 /\ DataOk => self[1] = built.val
                 /\ DataErr => result.err = built.err
            ELSE DataErr /\ result.err = inner.err

C25_Witness ==
    /\ DataErr
    /\ DataTy = <<TyExecutable, TySeeded("ConfigSeeds")>>
    /\ InnerOfData.ok
    /\ result.err = Error("ConstraintExecutable")

\* --------------------------------------- properties of compiled structs
\* The HasOne wrapper at position k of `data` names no field of the struct.
NamesNoField(k) == \A j \in FieldIdx : accs[j].ident # DataTy[k].arg

Compiled == pc \notin {"compile", "compile_error"}

AsksInit(af) ==
    af.constraints.init \/ af.constraints.zeroed \/ af.constraints.realloc

FirstAsked(af) ==
    IF af.constraints.init THEN "#[account(init, ...)]"
    ELSE IF af.constraints.zeroed THEN "#[account(zero)]"
    ELSE "#[account(realloc = ...)]"

Parsed == pc \notin {"parse", "parse_error"}

HasMutLayer == \E k \in 1 .. Len(DataTy) : DataTy[k].w = "Mut"

\* C28: the metas of a wrapper chain are the metas of the innermost value,
\* in the same order, pubkey and is_signer as they are; is_writable is true
\* on every entry when the chain holds a Mut layer, wherever it sits, and is
\* the inner value's otherwise.
C28_MutForcesWritable ==
    pc = "metas" =>
        /\ Len(result.metas) = Len(supplied)
        /\ \A i \in 1 .. Len(supplied) :
              /\ result.metas[i].pubkey = supplied[i].key
              /\ result.metas[i].is_signer =
                    (IF result.call.is_signer = <<>> THEN supplied[i].is_signer
                     ELSE result.call.is_signer[1])
              /\ result.metas[i].is_writable =
                    (HasMutLayer \/ supplied[i].is_writable)

C28_Witness ==
    /\ pc = "metas"
    /\ DataTy = <<TySeeded("ConfigSeeds"), TyMut>>
    /\ Len(supplied) = 2
    /\ ~supplied[1].is_writable /\ ~supplied[2].is_writable
    /\ supplied[1].key # supplied[2].key
    /\ \A i \in 1 .. 2 : result.metas[i].is_writable

\* ------------------------------------------- properties of signer seeds
\* The positions of the Seeded layers of the resolved `data`, and the value
\* whose outermost layer is the one at position k.
SeededLayers == {k \in 1 .. Len(DataTy) : DataTy[k].w = "Seeded"}

Peel(v, k) == [v EXCEPT !.layers = SubSeq(@, k, Len(@))]

\* C29: for a Seeded resolved by try_accounts, at any depth of the chain,
\* signer_seeds().to_signer_seeds() is the provider's seeds in their order
\* followed by one one-byte element holding the bump, and the candidate
\* address of exactly these slices and the program id is off the curve and
\* is the key of the wrapped account.
C29_SignerSeedsRoundTrip ==
    DataOk =>
        \A k \in SeededLayers :
            LET seeded == Peel(self[1], k)
                ss == to_signer_seeds(signer_seeds(seeded))
                n == Len(SeedsOf(DataTy[k].arg))
            IN  /\ Len(ss) = n + 1
                /\ \A j \in 1 .. n : ss[j] = SeedsOf(DataTy[k].arg)[j]
                /\ Len(ss[n + 1]) = 1
                /\ ss[n + 1][1] \in 0 .. U8Max
                /\ ss[n + 1][1] = SeededBump(seeded)
                /\ CreateProgramAddress(ss, program_id)
                      = [valid |-> TRUE, address |-> supplied[1].key]

C29_Witness ==
    /\ DataOk
    /\ DataTy = <<TyMut, TySeeded("VaultSeeds")>>
    /\ SeededBump(Peel(self[1], 2)) < U8Max
    /\ Len(to_signer_seeds(signer_seeds(Peel(self[1], 2)))) = 3

\* ----------------------------------------------- properties of the deploy
\* What the cluster says of the program, read off the cluster alone.
CannotBeUpgraded ==
    \/ cli.cluster.program.owner # "bpf_loader_upgradeable"
    \/ cli.cluster.program.state # "Program"
    \/ ~cli.cluster.programdata.exists
    \/ cli.cluster.programdata.state # "ProgramData"
    \/ cli.cluster.programdata.upgrade_authority_address = NoAuthority
    \/ cli.cluster.programdata.upgrade_authority_address
         # cli.args.upgrade_authority

\* The position of the first call of `name` in the calls made so far, and
\* one past the last position when there is none.
RECURSIVE FirstCall(_, _)
FirstCall(calls, name) ==
    IF calls = <<>> \/ Head(calls) = name THEN 1
    ELSE 1 + FirstCall(Tail(calls), name)

\* C30: once get_account has returned the program account to program_deploy,
\* verify_program_can_be_upgraded is called before write_program_buffer and
\* before upgrade_program; and when the program is not owned by the
\* upgradeable loader, is not a Program account, has no valid ProgramData
\* account, is immutable, or names another upgrade authority, nothing has
\* been sent at any point of the command, the command gets no further than
\* the verification, and what it returns is an error.
C30_VerifyBeforeBufferWrite ==
    (cli.op = "deploy" /\ cli.is_ok) =>
        /\ FirstCall(cli.calls, "write_program_buffer")
             <= Len(cli.calls) =>
               FirstCall(cli.calls, "verify_program_can_be_upgraded")
                 < FirstCall(cli.calls, "write_program_buffer")
        /\ FirstCall(cli.calls, "upgrade_program") <= Len(cli.calls) =>
               FirstCall(cli.calls, "verify_program_can_be_upgraded")
                 < FirstCall(cli.calls, "upgrade_program")
        /\ cli.sent # <<>> =>
               FirstCall(cli.calls, "verify_program_can_be_upgraded")
                 <= Len(cli.calls)
        /\ CannotBeUpgraded =>
               /\ cli.sent = <<>>
               /\ cli.at \in {"verify", "returned"}
               /\ cli.at = "returned" => ~cli.ok

C30_Witness ==
    /\ cli.op = "deploy"
    /\ cli.is_ok
    /\ cli.at = "returned"
    /\ ~cli.ok
    /\ cli.err = "Upgrade authority mismatch"
    /\ ~cli.args.buffer
    /\ cli.calls = <<"get_account", "verify_program_can_be_upgraded">>
    /\ cli.sent = <<>>

====
